---- MODULE Spec2Model ----
(***************************************************************************)
(* Model of the cryptobib-search engine: the index builder                 *)
(* (scripts/build-index), the search worker (src/lib/search/worker.ts)     *)
(* and its client SearchDB (src/lib/search/db.ts).                         *)
(*                                                                         *)
(* Strings are sequences of character codes (ASCII / UTF-16 code units):   *)
(* 32 space, 34 double quote, 44 comma, 46 dot, 58 colon, 59 semicolon,    *)
(* 48..57 digits, 65..90 upper case, 97..122 lower case, 233 e-acute.      *)
(* Doc ids, term ids and byte offsets are 0-based as in the code; a TLA+   *)
(* sequence s holds element i of the code's array at s[i + 1].             *)
(* Scores are the code's scores multiplied by 100 (3.0 -> 300).            *)
(***************************************************************************)
EXTENDS Integers, Sequences, FiniteSets, TLC

\* ------------------------------------------------------------- bounds

\* Most items (words, quoted phrases, lone quotes) in a query string.
MaxItems == 2

\* Most searches the client issues in one run of the worker model.
MaxCalls == 2

\* The longest query string handed to the parser on its own.
MaxQueryLen == 6

\* Entries of the bibliographies the builder is run on by itself.
MaxEntries == 2

\* ------------------------------------------------------------ strings

Min(x, y) == IF x < y THEN x ELSE y

Max(x, y) == IF x > y THEN x ELSE y

Range(s) == {s[i] : i \in 1..Len(s)}

\* s.slice(from, to) with 0-based, end-exclusive indices.
Slice(s, from, to) == SubSeq(s, from + 1, Min(to, Len(s)))

\* A function with domain 1..n as an explicit tuple (same value).
AsSeq(f) == f \o <<>>

\* The elements of a finite set of numbers in increasing order.
SortedSeq(S) ==
  LET ranked == {<<Cardinality({y \in S : y < x}), x>> : x \in S}
  IN  AsSeq([k \in 1..Cardinality(S) |-> (CHOOSE p \in ranked : p[1] = k - 1)[2]])

\* Concatenation of a sequence of sequences (by halves: shallow recursion).
RECURSIVE Concat(_)
Concat(ss) ==
  IF Len(ss) = 0 THEN <<>>
  ELSE IF Len(ss) = 1 THEN ss[1]
  ELSE LET h == Len(ss) \div 2
       IN  Concat(SubSeq(ss, 1, h)) \o Concat(SubSeq(ss, h + 1, Len(ss)))

\* Array.prototype.join.
Join(ss, sep) ==
  Concat([k \in 1..Len(ss) |-> IF k = 1 THEN ss[k] ELSE sep \o ss[k]])

\* Lexicographic comparison of two sequences of numbers: -1, 0 or 1.
LexCompare(s, t) ==
  LET D == {i \in 1..Min(Len(s), Len(t)) : s[i] # t[i]}
      d == IF D = {} THEN 0 ELSE CHOOSE i \in D : \A j \in D : i <= j
  IN  IF d = 0
      THEN (IF Len(s) < Len(t) THEN -1 ELSE IF Len(s) > Len(t) THEN 1 ELSE 0)
      ELSE IF s[d] < t[d] THEN -1 ELSE 1

\* JavaScript's s < t on strings: lexicographic on code units.
StrLess(s, t) == LexCompare(s, t) < 0

IsUpper(c) == c \in 65..90

IsAlnum(c) == c \in 48..57 \/ c \in 97..122

IsDigit(c) == c \in 48..57

\* Primary collation weight of a character under the default locale:
\* white space, then punctuation (, ; : . "), then digits, then letters
\* without regard to case.
PrimaryWeight(c) ==
  IF c = 32 THEN 1
  ELSE IF c = 44 THEN 2
  ELSE IF c = 59 THEN 3
  ELSE IF c = 58 THEN 4
  ELSE IF c = 46 THEN 5
  ELSE IF c = 34 THEN 6
  ELSE IF IsDigit(c) THEN 100 + (c - 48)
  ELSE IF IsUpper(c) THEN 200 + (c - 65)
  ELSE IF c \in 97..122 THEN 200 + (c - 97)
  ELSE IF c = 233 THEN 200 + 4
  ELSE 1000 + c

\* Lower-level weight: unaccented before accented, lower case before upper.
TertiaryWeight(c) == IF c = 233 THEN 2 ELSE IF IsUpper(c) THEN 1 ELSE 0

\* String.prototype.localeCompare: negative, zero or positive.  The
\* primary weights decide; the lower level breaks their ties.
localeCompare(s, t) ==
  LET p == LexCompare([i \in 1..Len(s) |-> PrimaryWeight(s[i])],
                      [i \in 1..Len(t) |-> PrimaryWeight(t[i])])
  IN  IF p # 0 THEN p
      ELSE LexCompare([i \in 1..Len(s) |-> TertiaryWeight(s[i])],
                      [i \in 1..Len(t) |-> TertiaryWeight(t[i])])

\* Number -> decimal string (String(n)).
RECURSIVE DecStr(_)
DecStr(n) == IF n < 10 THEN <<48 + n>> ELSE Append(DecStr(n \div 10), 48 + (n % 10))

\* ------------------------------------------------ normalize / tokenize

\* NFKD + removal of combining marks + toLowerCase, per character.
FoldChar(c) ==
  IF IsUpper(c) THEN c + 32
  ELSE IF c = 233 THEN 101
  ELSE c

normalize(s) == AsSeq([i \in 1..Len(s) |-> FoldChar(s[i])])

STOP ==
  { <<116,104,101>>, <<97>>, <<97,110>>, <<97,110,100>>, <<111,114>>,
    <<111,102>>, <<111,110>>, <<102,111,114>>, <<116,111>>, <<105,110>>,
    <<98,121>>, <<119,105,116,104>>, <<97,116>>, <<97,115>>,
    <<102,114,111,109>>, <<118,105,97>> }

\* s.split(/[^a-z0-9]+/).filter(t => t): the maximal runs of [a-z0-9].
RunStarts(s) == {i \in 1..Len(s) : IsAlnum(s[i]) /\ (i = 1 \/ ~IsAlnum(s[i - 1]))}

RunEnd(s, i) ==
  CHOOSE j \in i..Len(s) :
    /\ \A k \in i..j : IsAlnum(s[k])
    /\ (j = Len(s) \/ ~IsAlnum(s[j + 1]))

SplitAlnum(s) ==
  LET st == SortedSeq(RunStarts(s))
  IN  AsSeq([k \in 1..Len(st) |-> SubSeq(s, st[k], RunEnd(s, st[k]))])

SelectNonStop(parts) == SelectSeq(parts, LAMBDA t : t \notin STOP)

\* Builder tokenize: positions are indices in the emitted token stream.
tokenize(s) == SelectNonStop(SplitAlnum(normalize(s)))

\* ------------------------------------------------------------- corpus

\* The entries the builder has read (build-index main, after the YAML
\* pass): id = position - 1.  An optional field is <<>> when undefined and
\* <<v>> when it holds v.
Corpus ==
  << [ key     |-> <<67,67,83,58,82,111,103,48,50>>,                 \* "CCS:Rog02"
       title   |-> <<65,117,116,104,101,110,116,105,99,97,116,101,100,32,
                     69,110,99,114,121,112,116,105,111,110>>,        \* "Authenticated Encryption"
       authors |-> << <<82,111,103,97,119,97,121,44,32,80>> >>,      \* "Rogaway, P"
       venue   |-> <<67,67,83>>,                                     \* "CCS"
       year    |-> <<2002>>, page_range |-> <<>>, doi |-> <<>> ],
     [ key     |-> <<67,58,66,101,108,82,111,103,57,51>>,            \* "C:BelRog93"
       title   |-> <<90,101,114,111,32,75,110,111,119,108,101,100,103,101,
                     32,80,114,111,111,102,115>>,                    \* "Zero Knowledge Proofs"
       authors |-> << <<66,101,108,108,97,114,101,44,32,77>>,        \* "Bellare, M"
                      <<82,111,103,97,119,97,121,44,32,80>> >>,      \* "Rogaway, P"
       venue   |-> <<67,82,89,80,84,79>>,                            \* "CRYPTO"
       year    |-> <<1993>>, page_range |-> <<>>,
       doi     |-> << <<49,48,46,49,48,48,55,47,51,45,53,52,48>> >> ], \* "10.1007/3-540"
     [ key     |-> <<67,67,83,58,82,111,103,48,50,98>>,              \* "CCS:Rog02b"
       title   |-> <<65,117,116,104,101,110,116,105,99,97,116,101,100,32,
                     69,110,99,114,121,112,116,105,111,110,32,119,105,116,104,
                     32,65,115,115,111,99,105,97,116,101,100,32,68,97,116,97>>,
                                        \* "Authenticated Encryption with Associated Data"
       authors |-> << <<82,111,103,97,119,97,121,44,32,80>> >>,      \* "Rogaway, P"
       venue   |-> <<67,67,83>>,                                     \* "CCS"
       year    |-> <<2002>>, page_range |-> <<>>, doi |-> <<>> ],
     [ key     |-> <<69,67,58,76,121,117,49,50>>,                    \* "EC:Lyu12"
       title   |-> <<76,97,116,116,105,99,101,32,83,105,103,110,97,116,
                     117,114,101,115>>,                              \* "Lattice Signatures"
       authors |-> << <<76,121,117,98,97,115,104,101,118,115,107,121,
                        44,32,86>> >>,                               \* "Lyubashevsky, V"
       venue   |-> <<69,85,82,79,67,82,89,80,84>>,                   \* "EUROCRYPT"
       year    |-> <<2012>>, page_range |-> <<>>, doi |-> <<>> ],
     [ key     |-> <<70,83,58,70,111,117,57,48>>,                    \* "FS:Fou90"
       title   |-> <<66,101,108,108,97,114,101,32,70,101,115,116,115,99,
                     104,114,105,102,116>>,                          \* "Bellare Festschrift"
       authors |-> << <<70,111,117,113,117,233,44,32,80>> >>,        \* "Fouque', P"
       venue   |-> <<>>,
       year    |-> <<1990>>, page_range |-> <<>>, doi |-> <<>> ],
     [ key     |-> <<74,67,58,66,101,108,108>>,                      \* "JC:Bell"
       title   |-> <<76,97,116,116,105,99,101,32,80,114,111,111,102,115>>, \* "Lattice Proofs"
       authors |-> << <<66,101,108,108,44,32,74>> >>,                \* "Bell, J"
       venue   |-> <<>>,
       year    |-> <<>>, page_range |-> <<>>, doi |-> <<>> ],
     [ key     |-> <<74,67,58,66,101,108,108,50>>,                   \* "JC:Bell2"
       title   |-> <<76,97,116,116,105,99,101,32,80,114,111,111,102,115>>, \* "Lattice Proofs"
       authors |-> << <<66,101,108,108,44,32,74>> >>,                \* "Bell, J"
       venue   |-> <<>>,
       year    |-> <<>>, page_range |-> <<>>, doi |-> <<>> ] >>

\* entries.push({ id: id++, key, title, authors, authors_str, ... }).
entries ==
  AsSeq([i \in 1..Len(Corpus) |->
     [ id |-> i - 1, key |-> Corpus[i].key, title |-> Corpus[i].title,
       authors_str |-> Join(Corpus[i].authors, <<59, 32>>),
       venue |-> Corpus[i].venue, year |-> Corpus[i].year,
       page_range |-> Corpus[i].page_range, doi |-> Corpus[i].doi ]])

CoreFields == <<"title", "authors", "key">>

ExtFields == <<"venue", "year", "doi">>

\* Fields whose postings carry positions.
Positional == {"title", "authors"}

\* ------------------------------------------------------------ builder

\* The token stream the builder indexes for field f of entry d.
FieldTokens(d, f) ==
  CASE f = "title"   -> tokenize(d.title)
    [] f = "authors" -> tokenize(d.authors_str)
    [] f = "key"     -> SplitAlnum(normalize(d.key))
    [] f = "venue"   -> tokenize(d.venue)
    [] f = "year"    -> IF d.year # <<>> /\ d.year[1] # 0
                        THEN <<DecStr(d.year[1])>> ELSE <<>>
    [] f = "doi"     -> IF d.doi # <<>> /\ d.doi[1] # <<>>
                        THEN SplitAlnum(normalize(d.doi[1])) ELSE <<>>

\* The token streams of the tier's fields, per entry: toks[i][k] is field
\* fields[k] of entry es[i].
TokenTable(es, fields) ==
  AsSeq([i \in 1..Len(es) |->
           AsSeq([k \in 1..Len(fields) |-> FieldTokens(es[i], fields[k])])])

\* termId(map, arr, t) over all entries: the distinct terms of a tier.
CollectTerms(toks) ==
  UNION {Range(toks[i][k]) : i \in 1..Len(toks), k \in 1..Len(toks[1])}

\* finalizeTerms: the distinct terms sorted with localeCompare; postings
\* follow their term.
finalizeTerms(terms) ==
  LET ranked == {<<Cardinality({u \in terms : localeCompare(u, t) < 0}), t>> : t \in terms}
  IN  AsSeq([k \in 1..Cardinality(terms) |-> (CHOOSE p \in ranked : p[1] = k - 1)[2]])

\* The posting record of term t in field k: <<docId, positions>> for
\* each entry holding t, in docId order (tf = number of positions).
\* Seeded fault: every occurrence is recorded at position 0.
OccurrencesAtZero(ts, t) ==
  AsSeq([j \in 1..Cardinality({i \in 1..Len(ts) : ts[i] = t}) |-> 0])

Occurrences(ts, t) == SelectSeq(AsSeq([i \in 1..Len(ts) |-> i - 1]),
                                LAMBDA p : ts[p + 1] = t)

PostRec(toks, k, t) ==
  SelectSeq(AsSeq([i \in 1..Len(toks) |-> <<i - 1, Occurrences(toks[i][k], t)>>]),
            LAMBDA r : r[2] # <<>>)

RECURSIVE writeUVarint(_)
writeUVarint(n) ==
  IF n >= 128 THEN <<(n % 128) + 128>> \o writeUVarint(n \div 128)
  ELSE <<n>>

RECURSIVE DeltaVarints(_, _)
DeltaVarints(vals, last) ==
  IF vals = <<>> THEN <<>>
  ELSE writeUVarint(Head(vals) - last) \o DeltaVarints(Tail(vals), Head(vals))

RECURSIVE encodePositions(_, _)
encodePositions(rec, lastDoc) ==
  IF rec = <<>> THEN <<>>
  ELSE writeUVarint(rec[1][1] - lastDoc) \o writeUVarint(Len(rec[1][2]))
         \o DeltaVarints(rec[1][2], 0) \o encodePositions(Tail(rec), rec[1][1])

RECURSIVE encodeTF(_, _)
encodeTF(rec, lastDoc) ==
  IF rec = <<>> THEN <<>>
  ELSE writeUVarint(rec[1][1] - lastDoc) \o writeUVarint(Len(rec[1][2]))
         \o encodeTF(Tail(rec), rec[1][1])

EncodeField(toks, fields, k, t) ==
  IF fields[k] \in Positional THEN encodePositions(PostRec(toks, k, t), 0)
  ELSE encodeTF(PostRec(toks, k, t), 0)

\* The posting bytes of every (term, field) pair of a tier, in the order
\* the builder emits them: chunk (tid * nf + k) is term tid in field k
\* (0-based tid and k).
PostingChunks(toks, sorted, fields) ==
  AsSeq([c \in 1..(Len(sorted) * Len(fields)) |->
     EncodeField(toks, fields, ((c - 1) % Len(fields)) + 1,
                 sorted[((c - 1) \div Len(fields)) + 1])])

\* bytes.length when chunk c is about to be written.
ChunkStarts(chunks) ==
  AsSeq([c \in 1..Len(chunks) |-> Len(Concat(SubSeq(chunks, 1, c - 1)))])

\* buildCorePostings / buildExtPostings: the pointer arrays of field k
\* (1-based) of nf; a field without a record keeps start = len = 0.
PtrStart(chunks, starts, nf, k) ==
  AsSeq([tid \in 1..(Len(chunks) \div nf) |->
     IF chunks[(tid - 1) * nf + k] = <<>> THEN 0 ELSE starts[(tid - 1) * nf + k]])

PtrLen(chunks, nf, k) ==
  AsSeq([tid \in 1..(Len(chunks) \div nf) |-> Len(chunks[(tid - 1) * nf + k])])

\* ptrs.bin: the start and len arrays of the fields, in the tier's order.
PackPtrs(chunks, starts, nf) ==
  Concat([j \in 1..(2 * nf) |->
            IF j % 2 = 1 THEN PtrStart(chunks, starts, nf, (j + 1) \div 2)
            ELSE PtrLen(chunks, nf, j \div 2)])

\* buildDictBin: header, N + 1 offsets, the concatenated term bytes.
buildDictBin(terms) ==
  [ numTerms     |-> Len(terms),
    termBytesLen |-> Len(Concat(terms)),
    termOffsets  |-> AsSeq([i \in 1..(Len(terms) + 1) |->
                               Len(Concat(SubSeq(terms, 1, i - 1)))]),
    termBlob     |-> Concat(terms) ]

\* Docstore: JSON.stringify drops undefined members; the blob holds one
\* record per entry and docIndex its numDocs + 1 offsets.
DocJson(d) == [ id |-> d.id, key |-> d.key, title |-> d.title,
                authors_str |-> d.authors_str, venue |-> d.venue,
                year |-> d.year, page_range |-> d.page_range, doi |-> d.doi ]

\* The files of one tier: dict.bin, ptrs.bin, postings.bin.
BuildTier(es, fields) ==
  LET toks   == TokenTable(es, fields)
      sorted == finalizeTerms(CollectTerms(toks))
      chunks == PostingChunks(toks, sorted, fields)
  IN  [ dict     |-> buildDictBin(sorted),
        ptrs     |-> PackPtrs(chunks, ChunkStarts(chunks), Len(fields)),
        postings |-> Concat(chunks) ]

\* The artifact files written by one build (main, lines 376-431) over
\* the entries es.
BuildArtifacts(es) ==
  [ core     |-> BuildTier(es, CoreFields),
    ext      |-> BuildTier(es, ExtFields),
    coreMeta |-> [numDocs |-> Len(es)],
    docIndex |-> AsSeq([i \in 1..(Len(es) + 1) |-> i - 1]),
    docBlob  |-> AsSeq([i \in 1..Len(es) |-> DocJson(es[i])]),
    idmap    |-> {<<es[i].key, es[i].id>> : i \in 1..Len(es)} ]

Artifacts == BuildArtifacts(entries)

\* ------------------------------------------------------- query parser

\* String.prototype.trim (white space is the space character here).
trim(s) ==
  LET I == {i \in 1..Len(s) : s[i] # 32}
  IN  IF I = {} THEN <<>>
      ELSE SubSeq(s, CHOOSE i \in I : \A j \in I : i <= j,
                     CHOOSE i \in I : \A j \in I : i >= j)

\* The matches of /"([^"]+)"/g from index `from` on (1-based, inclusive
\* <<first, last>> of the whole match): an opening quote, at least one
\* character that is no quote, the closing quote.
RECURSIVE PhraseMatches(_, _)
PhraseMatches(norm, from) ==
  LET Q    == {i \in from..Len(norm) : norm[i] = 34}
      Open == {i \in Q : i + 1 <= Len(norm) /\ norm[i + 1] # 34
                          /\ \E j \in Q : j > i}
  IN  IF Open = {} THEN <<>>
      ELSE LET i == CHOOSE a \in Open : \A b \in Open : a <= b
               j == CHOOSE a \in Q : a > i /\ \A b \in Q : b > i => a <= b
           IN  <<<<i, j>>>> \o PhraseMatches(norm, j + 1)

\* The token lists of the quoted phrases matched at ms, in order.
PhraseTokens(norm, ms) ==
  AsSeq([k \in 1..Len(ms) |->
     SelectNonStop(SplitAlnum(trim(SubSeq(norm, ms[k][1] + 1, ms[k][2] - 1))))])

\* phrases.push(p.join(' ')) for every phrase that keeps a token.
JoinPhrases(ps) == AsSeq([k \in 1..Len(ps) |-> Join(ps[k], <<32>>)])

\* `rest`: the characters of norm outside every match, concatenated.
PickChars(norm, idx) == AsSeq([k \in 1..Len(idx) |-> norm[idx[k]]])

RestOf(norm, consumed) ==
  PickChars(norm, SelectSeq(AsSeq([i \in 1..Len(norm) |-> i]), LAMBDA i : i \notin consumed))

EndsWithQuote(s) == Len(s) > 0 /\ s[Len(s)] = 34

\* Seeded fault: the quote is looked for at the end of the untrimmed
\* string.
TokenizePartsUntrimmed(norm, ms, parts) ==
  [ phrases      |-> JoinPhrases(SelectSeq(PhraseTokens(norm, ms), LAMBDA p : Len(p) > 0)),
    tokens       |-> parts,
    lastIsPrefix |-> Len(parts) > 0 /\ ~EndsWithQuote(norm) ]

TokenizeParts(norm, ms, parts) ==
  [ phrases      |-> JoinPhrases(SelectSeq(PhraseTokens(norm, ms), LAMBDA p : Len(p) > 0)),
    tokens       |-> parts,
    lastIsPrefix |-> Len(parts) > 0 /\ ~EndsWithQuote(trim(norm)) ]

\* Seeded fault: the matched spans are not taken out of the rest.
TokenizeMatchesKeepsQuoted(norm, ms) ==
  TokenizeParts(norm, ms, SelectNonStop(SplitAlnum(norm)))

TokenizeMatches(norm, ms) ==
  TokenizeParts(norm, ms,
     SelectNonStop(SplitAlnum(RestOf(norm, UNION {ms[k][1]..ms[k][2] : k \in 1..Len(ms)}))))

TokenizeNorm(norm) == TokenizeMatches(norm, PhraseMatches(norm, 1))

tokenizeQuery(q) == TokenizeNorm(normalize(q))

\* ---------------------------------------------------------- dictionary

\* blob.subarray(start, end) clamps its bounds to the blob and is empty
\* when end <= start.
termAt(blob, offsets, i) == Slice(blob, offsets[i + 1], offsets[i + 2])

RECURSIVE LowerBoundFrom(_, _, _, _, _)
LowerBoundFrom(blob, offsets, needle, lo, hi) ==
  IF lo < hi
  THEN LET mid == (lo + hi) \div 2
       IN  IF StrLess(termAt(blob, offsets, mid), needle)
           THEN LowerBoundFrom(blob, offsets, needle, mid + 1, hi)
           ELSE LowerBoundFrom(blob, offsets, needle, lo, mid)
  ELSE lo

lowerBoundTerm(blob, offsets, needle) ==
  LowerBoundFrom(blob, offsets, needle, 0, Len(offsets) - 1)

\* The loader's prefix map: key = first min(4, |term|) characters of a
\* term, value = <<lo, hi>> of the last run of consecutive terms with
\* that key (a later run overwrites an earlier one).
PrefixOf(term) == Slice(term, 0, Min(4, Len(term)))

BuildPrefixMap(blob, offsets, numTerms) ==
  LET pref(i)  == PrefixOf(termAt(blob, offsets, i))
      Starts   == {i \in 0..(numTerms - 1) :
                     IF i = 0 THEN pref(i) # <<>> ELSE pref(i) # pref(i - 1)}
      RunEndOf(i) == IF \E j \in Starts : j > i
                     THEN CHOOSE j \in Starts : j > i /\ \A k \in Starts : k > i => j <= k
                     ELSE numTerms
      \* an empty first key opens no run: its terms are filed under ''
      Keys     == {pref(i) : i \in Starts} \cup (IF 0 \in Starts THEN {} ELSE {<<>>})
      LastRun(p) == IF \E i \in Starts : pref(i) = p
                    THEN CHOOSE i \in Starts : pref(i) = p
                           /\ \A j \in Starts : pref(j) = p => j <= i
                    ELSE 0
  IN  [p \in Keys |-> <<LastRun(p), RunEndOf(LastRun(p))>>]

\* ------------------------------------------------------------ decoder

\* x |= (v << s) >>> 0.  The 7-bit groups at shifts 0, 7, 14 and 21 are
\* disjoint, so the OR is a sum; every value written by the builder for
\* the corpus fits in these four groups (below 2^28), and a group at
\* shift 28 or more lies outside the integers of the model.
OrShifted(x, v, s) == IF s <= 21 THEN x + v * (2 ^ s) ELSE x

\* uvarint(buf, p) from 0-based offset p: <<value, next offset>>.  The
\* loop is bounded by buf.length only.
RECURSIVE UvarintFrom(_, _, _, _)
UvarintFrom(buf, i, x, s) ==
  IF i >= Len(buf) THEN <<x, i>>
  ELSE IF buf[i + 1] < 128 THEN <<OrShifted(x, buf[i + 1], s), i + 1>>
  ELSE UvarintFrom(buf, i + 1, OrShifted(x, buf[i + 1] % 128, s), s + 7)

uvarint(buf, p) == UvarintFrom(buf, p, 0, 0)

\* The position deltas of one doc entry: <<positions, next offset>>.
RECURSIVE ReadPositions(_, _, _, _)
ReadPositions(buf, p, n, lastPos) ==
  IF n = 0 THEN <<<<>>, p>>
  \* at the end of the buffer uvarint returns <<0, p>>: every delta
  \* left is 0
  ELSE IF p >= Len(buf) THEN <<AsSeq([k \in 1..n |-> lastPos]), p>>
  ELSE LET d    == uvarint(buf, p)
           rest == ReadPositions(buf, d[2], n - 1, lastPos + d[1])
       IN  <<<<lastPos + d[1]>> \o rest[1], rest[2]>>

\* readPostings: the doc entries <<docId, positions>> decoded from
\* [start, start + len); a frequency-only entry has positions <<>>.
RECURSIVE ReadPostingsFrom(_, _, _, _, _)
ReadPostingsFrom(buf, p, end, lastDoc, withPositions) ==
  IF p < end
  THEN LET v     == uvarint(buf, p)
           docId == lastDoc + v[1]
           n     == uvarint(buf, v[2])
           pos   == IF withPositions THEN ReadPositions(buf, n[2], n[1], 0)
                    ELSE <<<<>>, n[2]>>
       IN  <<<<docId, pos[1]>>>> \o ReadPostingsFrom(buf, pos[2], end, docId, withPositions)
  ELSE <<>>

\* The value of p when the loop of readPostings ends.
RECURSIVE ReadEndFrom(_, _, _, _)
ReadEndFrom(buf, p, end, withPositions) ==
  IF p < end
  THEN ReadEndFrom(buf,
         IF withPositions
         THEN ReadPositions(buf, uvarint(buf, uvarint(buf, p)[2])[2],
                            uvarint(buf, uvarint(buf, p)[2])[1], 0)[2]
         ELSE uvarint(buf, uvarint(buf, p)[2])[2],
         end, withPositions)
  ELSE p

readPostings(postings, start, len, withPositions) ==
  LET es == ReadPostingsFrom(postings, start, start + len, 0, withPositions)
  IN  [ docs      |-> AsSeq([i \in 1..Len(es) |-> es[i][1]]),
        positions |-> AsSeq([i \in 1..Len(es) |-> es[i][2]]) ]

\* ------------------------------------------------------ worker state

EmptyTier ==
  [ termBlob |-> <<>>, termOffsets |-> <<>>,
    ptrStart |-> <<<<>>, <<>>, <<>>>>, ptrLen |-> <<<<>>, <<>>, <<>>>>,
    postings |-> <<>>, prefixMap |-> <<>> ]

\* The module-level `state` object before any message is handled.
InitialState ==
  [ inited |-> FALSE, numDocs |-> 0, core |-> EmptyTier,
    extLoaded |-> FALSE, ext |-> EmptyTier,
    docIndex |-> <<>>, docBlob |-> <<>>, keyToId |-> {} ]

\* The typed-array views a loader takes of a tier's dict, ptrs and
\* postings files: ptrStart[k] / ptrLen[k] are the arrays of the k-th
\* field of the tier, read from ptrs.bin in the order start, len.
LoadTier(f) ==
  LET n == f.dict.numTerms
  IN  [ termBlob    |-> Slice(f.dict.termBlob, 0, f.dict.termBytesLen),
        termOffsets |-> Slice(f.dict.termOffsets, 0, n + 1),
        ptrStart    |-> AsSeq([k \in 1..3 |-> Slice(f.ptrs, (2 * k - 2) * n, (2 * k - 1) * n)]),
        ptrLen      |-> AsSeq([k \in 1..3 |-> Slice(f.ptrs, (2 * k - 1) * n, 2 * k * n)]),
        postings    |-> f.postings,
        prefixMap   |-> BuildPrefixMap(f.dict.termBlob, f.dict.termOffsets, n) ]

\* loadCore in its three stretches between awaits: after the meta
\* fetch, after the Promise.all of the binary fetches, and after
\* keyMapRes.json().
loadCoreMeta(st, fs) == [st EXCEPT !.numDocs = fs.coreMeta.numDocs]

loadCoreBins(st, fs) ==
  [st EXCEPT !.core = [LoadTier(fs.core) EXCEPT !.prefixMap = st.core.prefixMap],
             !.docIndex = fs.docIndex,
             !.docBlob = fs.docBlob]

loadCoreFinish(st, fs) ==
  [st EXCEPT !.keyToId = st.keyToId \cup fs.idmap,
             !.core.prefixMap = LoadTier(fs.core).prefixMap]

\* Seeded fault: extLoaded is set before the prefix map is assigned.
loadExtFlagEarly(st, fs) ==
  [st EXCEPT !.ext = [LoadTier(fs.ext) EXCEPT !.prefixMap = st.ext.prefixMap],
             !.extLoaded = TRUE]

\* The assignments of ensureExtendedLoaded after its fetches.
loadExt(st, fs) ==
  [st EXCEPT !.ext = LoadTier(fs.ext), !.extLoaded = TRUE]

\* The worker state once handleInit has run to its end.
ReadyState(fs) ==
  [loadCoreFinish(loadCoreBins(loadCoreMeta(InitialState, fs), fs), fs)
     EXCEPT !.inited = TRUE]

\* getEntryById: <<>> is null, <<e>> the parsed entry; the slice of the
\* docstore between the two offsets must hold exactly one JSON value.
getEntryById(st, id) ==
  IF id < 0 \/ id >= st.numDocs THEN <<>>
  ELSE IF id + 2 > Len(st.docIndex) THEN <<>>
  ELSE LET sl == Slice(st.docBlob, st.docIndex[id + 1], st.docIndex[id + 2])
       IN  IF Len(sl) = 1 THEN sl ELSE <<>>

RECURSIVE binarySearchFrom(_, _, _, _)
binarySearchFrom(arr, x, lo, hi) ==
  IF lo <= hi
  THEN LET mid == (lo + hi) \div 2
       IN  IF arr[mid + 1] = x THEN mid
           ELSE IF arr[mid + 1] < x THEN binarySearchFrom(arr, x, mid + 1, hi)
           ELSE binarySearchFrom(arr, x, lo, mid - 1)
  ELSE -1

binarySearch(arr, x) == binarySearchFrom(arr, x, 0, Len(arr) - 1)

\* ------------------------------------------------------- handleSearch

\* opts: limit is <<>> when absent, else <<n>>.
\* Seeded fault: the limit is taken as given, without the clamp.
LimitUnclamped(opts) == IF opts.limit = <<>> THEN 50 ELSE opts.limit[1]

Limit(opts) == Max(1, Min(1000, IF opts.limit = <<>> THEN 50 ELSE opts.limit[1]))

\* Seeded fault: the range is not capped.
ExpandRangeUncapped(l, r, exactId) ==
  SelectSeq(AsSeq([i \in 1..Max(0, r - l) |-> l + i - 1]), LAMBDA i : i # exactId)

\* The ids pushed by the prefix branch: [l, min(r, l + cap)) without
\* index exactId.
ExpandRange(l, r, exactId) ==
  SelectSeq(AsSeq([i \in 1..Max(0, Min(r, l + 128) - l) |-> l + i - 1]),
            LAMBDA i : i # exactId)

\* Seeded fault: the prefix flag is inverted, so every token but the
\* terminal one is expanded.
ResolveAtInverted(dict, token, prefix, exactId) ==
  (IF exactId < Len(dict.termOffsets) - 1
        /\ termAt(dict.termBlob, dict.termOffsets, exactId) = token
   THEN <<exactId>> ELSE <<>>)
  \o (IF ~prefix /\ Len(token) > 0 /\ PrefixOf(token) \in DOMAIN dict.prefixMap
      THEN ExpandRange(exactId,
                       lowerBoundTerm(dict.termBlob, dict.termOffsets, token \o <<65535>>),
                       exactId)
      ELSE <<>>)

\* Seeded fault: the exact term is never pushed.
ResolveAtNoExact(dict, token, prefix, exactId) ==
  IF prefix /\ Len(token) > 0 /\ PrefixOf(token) \in DOMAIN dict.prefixMap
  THEN ExpandRange(exactId,
                   lowerBoundTerm(dict.termBlob, dict.termOffsets, token \o <<65535>>),
                   exactId)
  ELSE <<>>

ResolveAt(dict, token, prefix, exactId) ==
  (IF exactId < Len(dict.termOffsets) - 1
        /\ termAt(dict.termBlob, dict.termOffsets, exactId) = token
   THEN <<exactId>> ELSE <<>>)
  \o (IF prefix /\ Len(token) > 0 /\ PrefixOf(token) \in DOMAIN dict.prefixMap
      THEN ExpandRange(exactId,
                       lowerBoundTerm(dict.termBlob, dict.termOffsets, token \o <<65535>>),
                       exactId)
      ELSE <<>>)

\* The term ids a token resolves to in one tier.  The prefix branch runs
\* only when the map built by the loader has the token's first four
\* characters as a key; its range starts at l = lower bound of the token,
\* which is also exactId, so index l is skipped whether or not that term
\* equals the token.
resolveTermRanges(dict, token, prefix) ==
  ResolveAt(dict, token, prefix, lowerBoundTerm(dict.termBlob, dict.termOffsets, token))

IsYearToken(t) == Len(t) = 4 /\ \A i \in 1..4 : IsDigit(t[i])

\* /doi|10\.\d/
LooksLikeDoi(t) ==
  \/ \E i \in 1..(Len(t) - 2) : SubSeq(t, i, i + 2) = <<100, 111, 105>>
  \/ \E i \in 1..(Len(t) - 3) : SubSeq(t, i, i + 2) = <<49, 48, 46>> /\ IsDigit(t[i + 3])

\* /[A-Za-z]+:\w+/
LooksLikeFieldPrefix(t) ==
  \E i \in 1..(Len(t) - 2) :
     /\ IsUpper(t[i]) \/ (t[i] >= 97 /\ t[i] <= 122)
     /\ t[i + 1] = 58
     /\ IsAlnum(t[i + 2]) \/ IsUpper(t[i + 2]) \/ t[i + 2] = 95

needsExt(tokens, opts) ==
  opts.useExtended
    \/ \E i \in 1..Len(tokens) :
         IsYearToken(tokens[i]) \/ LooksLikeDoi(tokens[i]) \/ LooksLikeFieldPrefix(tokens[i])

\* readPostings of field k of a term, as {docs, src}.
FieldPostings(tier, fields, termId, k) ==
  [ docs |-> readPostings(tier.postings, tier.ptrStart[k][termId + 1],
                          tier.ptrLen[k][termId + 1], fields[k] \in Positional).docs,
    src  |-> fields[k] ]

PostingsOfFields(tier, fields, termId, ks) ==
  AsSeq([j \in 1..Len(ks) |-> FieldPostings(tier, fields, termId, ks[j])])

\* postingsForCoreTerm / postingsForExtTerm: one {docs, src} per field of
\* the tier in which the term has postings.
PostingsForTerm(tier, fields, termId) ==
  PostingsOfFields(tier, fields, termId,
     SelectSeq(<<1, 2, 3>>,
        LAMBDA k : termId + 1 <= Len(tier.ptrLen[k]) /\ tier.ptrLen[k][termId + 1] # 0))

RECURSIVE mergeSortedUnique(_)
mergeSortedUnique(arrs) ==
  LET live == {j \in 1..Len(arrs) : Len(arrs[j]) > 0}
  IN  IF live = {} THEN <<>>
      ELSE LET min == CHOOSE m \in {arrs[j][1] : j \in live} :
                         \A j \in live : m <= arrs[j][1]
           IN  <<min>> \o mergeSortedUnique(
                 [j \in 1..Len(arrs) |->
                    IF j \in live /\ arrs[j][1] = min THEN Tail(arrs[j]) ELSE arrs[j]])

PostingsOfIds(tier, fields, ids) ==
  Concat([i \in 1..Len(ids) |-> PostingsForTerm(tier, fields, ids[i])])

\* The posting lists of token t of the query: every field of every term
\* id it resolves to, core first, ext only once the tier is loaded.
TokenPostings(st, tq, t) ==
  PostingsOfIds(st.core, CoreFields,
     resolveTermRanges(st.core, tq.tokens[t], tq.lastIsPrefix /\ t = Len(tq.tokens)))
  \o (IF st.extLoaded
      THEN PostingsOfIds(st.ext, ExtFields,
             resolveTermRanges(st.ext, tq.tokens[t], tq.lastIsPrefix /\ t = Len(tq.tokens)))
      ELSE <<>>)

\* tokenDocSets.push({docs: unionDocs, srcs}).
DocSet(ps) ==
  [ docs |-> mergeSortedUnique([i \in 1..Len(ps) |-> ps[i].docs]),
    srcs |-> {ps[i].src : i \in 1..Len(ps)} ]

TokenDocSets(st, tq) ==
  AsSeq([t \in 1..Len(tq.tokens) |-> DocSet(TokenPostings(st, tq, t))])

\* Array.prototype.sort with (a, b) => a.docs.length - b.docs.length
\* (stable: equal lengths keep query order).
ShorterFirst(sets, i, j) ==
  Len(sets[i].docs) < Len(sets[j].docs) \/ (Len(sets[i].docs) = Len(sets[j].docs) /\ i < j)

sortByLength(sets) ==
  AsSeq([k \in 1..Len(sets) |->
     sets[CHOOSE i \in 1..Len(sets) :
            Cardinality({j \in 1..Len(sets) : ShorterFirst(sets, j, i)}) = k - 1]])

\* Seeded fault: the loop keeps all of a from x on instead of
\* intersecting it with b.
IntersectKeepsLeft(a, b, x, y) == SubSeq(a, x + 1, Len(a))

\* The two-pointer loop over sorted arrays a and b, from x and y.
RECURSIVE IntersectFrom(_, _, _, _)
IntersectFrom(a, b, x, y) ==
  IF x < Len(a) /\ y < Len(b)
  THEN IF a[x + 1] = b[y + 1] THEN <<a[x + 1]>> \o IntersectFrom(a, b, x + 1, y + 1)
       ELSE IF a[x + 1] < b[y + 1] THEN IntersectFrom(a, b, x + 1, y)
       ELSE IntersectFrom(a, b, x, y + 1)
  ELSE <<>>

RECURSIVE IntersectAll(_, _, _)
IntersectAll(sets, i, intersection) ==
  IF i > Len(sets) \/ Len(intersection) = 0 THEN intersection
  ELSE IntersectAll(sets, i + 1, IntersectFrom(intersection, sets[i].docs, 0, 0))

\* Weights in hundredths: title 3.0, authors 1.8, venue 1.2, year, key
\* and doi 0.8.
FIELD_W ==
  [ title |-> 300, authors |-> 180, venue |-> 120, year |-> 80, key |-> 80, doi |-> 80 ]

\* What one token adds to a document's score: decided by the fields in
\* the token's srcs set, which is shared by all documents of the token.
TokenWeight(srcs) ==
  IF "title" \in srcs THEN FIELD_W.title
  ELSE IF "authors" \in srcs THEN FIELD_W.authors
  ELSE IF "venue" \in srcs THEN FIELD_W.venue
  ELSE IF "year" \in srcs THEN FIELD_W.year
  ELSE IF "key" \in srcs THEN FIELD_W.key
  ELSE IF "doi" \in srcs THEN FIELD_W.doi
  ELSE 0

RECURSIVE ScoreFrom(_, _, _)
ScoreFrom(sets, id, i) ==
  IF i > Len(sets) THEN 0
  ELSE (IF binarySearch(sets[i].docs, id) >= 0 THEN TokenWeight(sets[i].srcs) ELSE 0)
         + ScoreFrom(sets, id, i + 1)

ScoreDocs(sets, inter) ==
  AsSeq([i \in 1..Len(inter) |-> [id |-> inter[i], score |-> ScoreFrom(sets, inter[i], 1)]])

\* ea?.year ?? 0, ea?.title ?? '', ea?.key ?? '' of an entry or null.
YearOr0(e) == IF e # <<>> /\ e[1].year # <<>> THEN e[1].year[1] ELSE 0
TitleOrEmpty(e) == IF e # <<>> THEN e[1].title ELSE <<>>
KeyOrEmpty(e) == IF e # <<>> THEN e[1].key ELSE <<>>

\* Seeded fault: the year tie-break is ascending.
CompareEntriesYearAscending(sa, sb, ea, eb) ==
  IF sb # sa THEN sb - sa
  ELSE IF YearOr0(eb) # YearOr0(ea) THEN YearOr0(ea) - YearOr0(eb)
  ELSE IF TitleOrEmpty(ea) # TitleOrEmpty(eb)
       THEN localeCompare(TitleOrEmpty(ea), TitleOrEmpty(eb))
  ELSE localeCompare(KeyOrEmpty(ea), KeyOrEmpty(eb))

CompareEntries(sa, sb, ea, eb) ==
  IF sb # sa THEN sb - sa
  ELSE IF YearOr0(eb) # YearOr0(ea) THEN YearOr0(eb) - YearOr0(ea)
  ELSE IF TitleOrEmpty(ea) # TitleOrEmpty(eb)
       THEN localeCompare(TitleOrEmpty(ea), TitleOrEmpty(eb))
  ELSE localeCompare(KeyOrEmpty(ea), KeyOrEmpty(eb))

\* The comparator of results.sort: negative when a goes first.
compareResults(st, a, b) ==
  CompareEntries(a.score, b.score, getEntryById(st, a.id), getEntryById(st, b.id))

GoesBefore(c, i, j) == c < 0 \/ (c = 0 /\ i < j)

\* The number of results that a stable sort by compareResults puts
\* before rs[i], for each i.
RankOf(st, rs) ==
  AsSeq([i \in 1..Len(rs) |->
     Cardinality({j \in 1..Len(rs) :
        GoesBefore(compareResults(st, rs[j], rs[i]), j, i)})])

SortByRank(rs, rank) ==
  AsSeq([k \in 1..Len(rs) |-> rs[CHOOSE i \in 1..Len(rs) : rank[i] = k - 1]])

\* results.sort(compareResults), a stable sort.
sortResults(st, rs) == SortByRank(rs, RankOf(st, rs))

\* The entries of the first min(limit, |results|) results; a null entry
\* is left out.
TopK(st, rs, limit) ==
  Concat([i \in 1..Min(limit, Len(rs)) |-> getEntryById(st, rs[i].id)])

\* The text of the errors the model tells apart.
NoDocs == "reading 'docs' of undefined"
NoMsg == "reading 'basePath' of undefined"
FetchError == "failed to fetch"

\* What a run of handleSearch yields: the message it posts (type,
\* results, message) and the intermediate values of the run (the token
\* doc sets in query order, the intersection, the sorted {id, score}).
EmptyRun ==
  [ type |-> "search:ok", results |-> <<>>, message |-> "", sets |-> <<>>,
    matched |-> <<>>, ranked |-> <<>> ]

ErrorRun(message) == [EmptyRun EXCEPT !.type = "error", !.message = message]

Ranked(st, opts, sets, inter, ranked) ==
  [ type |-> "search:ok", results |-> TopK(st, ranked, Limit(opts)), message |-> "",
    sets |-> sets, matched |-> inter, ranked |-> ranked ]

Scored(st, opts, sets, sorted, inter) ==
  Ranked(st, opts, sets, inter, sortResults(st, ScoreDocs(sorted, inter)))

Intersected(st, opts, sets, sorted) ==
  Scored(st, opts, sets, sorted, IntersectAll(sorted, 2, sorted[1].docs))

\* From the doc sets on.  With no bag token tokenDocSets is empty and
\* tokenDocSets[0].docs throws a TypeError.
Conjoin(st, opts, sets) ==
  IF \E i \in 1..Len(sets) : Len(sets[i].docs) = 0
  THEN [EmptyRun EXCEPT !.sets = sets]
  ELSE IF Len(sets) = 0 THEN ErrorRun(NoDocs)
  ELSE Intersected(st, opts, sets, sortByLength(sets))

\* handleSearch against worker state st, from the token resolution on.
RunQuery(st, tq, opts) == Conjoin(st, opts, TokenDocSets(st, tq))

\* handleSearch from tokenizeQuery on, given that the tiers it needs
\* are loaded in st.
SearchRun(st, tq, opts) ==
  IF Len(tq.tokens) = 0 /\ Len(tq.phrases) = 0 THEN EmptyRun
  ELSE RunQuery(st, tq, opts)

\* ------------------------------------------------------ state machine

VARIABLES
  files,       \* the artifact files the server answers fetches with
  state,       \* the worker's module-level state object
  inbox,       \* messages posted to the worker, not yet handled
  tasks,       \* handler invocations of the worker suspended at an await
  outbox,      \* messages posted by the worker, not yet delivered
  ready,       \* SearchDB.ready: "pending", "resolved" or "rejected"
  calls,       \* the db.search and db.getEntry calls made so far
  extFetches,  \* rounds of extended-tier fetches started so far
  log,         \* one entry per search the worker has answered
  probe        \* a call of readPostings made on its own: arguments, outcome

vars == <<files, state, inbox, tasks, outbox, ready, calls, extFetches, log, probe>>

\* No call of readPostings made on its own.
NoProbe == <<>>

DefaultOpts == [limit |-> <<>>, useExtended |-> FALSE]

InitMsg == [type |-> "init", q |-> <<>>, opts |-> DefaultOpts]
SearchMsg(q, opts) == [type |-> "search", q |-> q, opts |-> opts]

\* idOrKey is <<"id", n>> for a number and <<"key", k>> for a string.
GetMsg(idOrKey) == [type |-> "get", q |-> idOrKey, opts |-> DefaultOpts]

InitOk == [type |-> "init:ok", results |-> <<>>, message |-> ""]
ErrorMsg(m) == [type |-> "error", results |-> <<>>, message |-> m]
SearchOk(rs) == [type |-> "search:ok", results |-> rs, message |-> ""]
\* entry is <<>> for null and <<e>> for an entry.
GetOk(entry) == [type |-> "get:ok", results |-> entry, message |-> ""]

\* The core tier as handleInit leaves it: every assignment of loadCore
\* made, the prefix map being the last one (a Map that has been built
\* holds at least one key), and inited set.
CoreLoaded(st) ==
  /\ st.inited
  /\ st.numDocs = files.coreMeta.numDocs
  /\ st.core.termBlob = files.core.dict.termBlob
  /\ st.core.termOffsets = files.core.dict.termOffsets
  /\ st.core.postings = files.core.postings
  /\ st.docIndex = files.docIndex /\ st.docBlob = files.docBlob
  /\ st.keyToId = files.idmap
  /\ st.core.prefixMap # <<>>

\* What the log keeps of one answered search: the query, the message
\* posted, the worker state it ran against and the values of the run.
LogEntry(st, q, opts, tq, run) ==
  [ q |-> q, opts |-> opts, tq |-> tq,
    type |-> run.type, message |-> run.message, results |-> run.results,
    sets |-> run.sets, matched |-> run.matched, ranked |-> run.ranked,
    coreLoaded |-> CoreLoaded(st), extLoaded |-> st.extLoaded ]

ReplyOf(run) ==
  IF run.type = "error" THEN ErrorMsg(run.message) ELSE SearchOk(run.results)

\* State after construction of a SearchDB: the worker is fresh and the
\* init message has been posted.
Init ==
  /\ files = Artifacts
  /\ state = InitialState
  /\ inbox = <<InitMsg>>
  /\ tasks = <<>>
  /\ outbox = <<>>
  /\ ready = "pending"
  /\ calls = <<>>
  /\ extFetches = 0
  /\ log = <<>>
  /\ probe = NoProbe

\* ------------------------------------------------------------- worker

Task(kind, pc, m) == [kind |-> kind, pc |-> pc, q |-> m.q, opts |-> m.opts]

Without(seq, i) == SubSeq(seq, 1, i - 1) \o SubSeq(seq, i + 1, Len(seq))

\* onmessage with an init message: handleInit up to its first await.
WorkerInit ==
  /\ inbox # <<>> /\ Head(inbox).type = "init"
  /\ inbox' = Tail(inbox)
  /\ tasks' = IF state.inited THEN tasks
              ELSE Append(tasks, Task("init", "meta", Head(inbox)))
  /\ UNCHANGED <<probe, files, state, outbox, ready, calls, extFetches, log>>

\* postMessage of the answer to a search, which the log records.
Answer(st, q, opts, tq, run) ==
  /\ outbox' = Append(outbox, ReplyOf(run))
  /\ log' = Append(log, LogEntry(st, q, opts, tq, run))

\* Seeded fault: the extended tier is loaded before the query is looked
\* at, so a query without tokens starts a load too.
HandleSearchLoadsFirst(m, tq) ==
  IF needsExt(tq.tokens, m.opts) /\ ~state.extLoaded
  THEN /\ tasks' = Append(tasks, Task("search", "extMeta", m))
       /\ extFetches' = extFetches + 1
       /\ UNCHANGED <<outbox, log>>
  ELSE /\ Answer(state, m.q, m.opts, tq, SearchRun(state, tq, m.opts))
       /\ UNCHANGED <<tasks, extFetches>>

\* handleSearch on an inited worker up to its first await on a fetch, or
\* to its end when it needs none.
HandleSearch(m, tq) ==
  IF (Len(tq.tokens) # 0 \/ Len(tq.phrases) # 0)
       /\ needsExt(tq.tokens, m.opts) /\ ~state.extLoaded
  THEN /\ tasks' = Append(tasks, Task("search", "extMeta", m))
       /\ extFetches' = extFetches + 1
       /\ UNCHANGED <<outbox, log>>
  ELSE /\ Answer(state, m.q, m.opts, tq, SearchRun(state, tq, m.opts))
       /\ UNCHANGED <<tasks, extFetches>>

\* onmessage with a search message.  On a worker that is not inited,
\* handleInit() is called without a message and throws.
WorkerSearch ==
  /\ inbox # <<>> /\ Head(inbox).type = "search"
  /\ inbox' = Tail(inbox)
  /\ IF state.inited
     THEN HandleSearch(Head(inbox), tokenizeQuery(Head(inbox).q))
     ELSE /\ Answer(state, Head(inbox).q, Head(inbox).opts,
                    tokenizeQuery(Head(inbox).q), ErrorRun(NoMsg))
          /\ UNCHANGED <<tasks, extFetches>>
  /\ UNCHANGED <<probe, files, state, ready, calls>>

\* state.keyToId.get(key) ?? -1 for a string, the number itself else.
\* Seeded fault: a key that is not in the map yields id 0 instead of -1.
IdOfMissIsZero(st, idOrKey) ==
  IF idOrKey[1] = "key"
  THEN IF \E p \in st.keyToId : p[1] = idOrKey[2]
       THEN (CHOOSE p \in st.keyToId : p[1] = idOrKey[2])[2]
       ELSE 0
  ELSE idOrKey[2]

IdOf(st, idOrKey) ==
  IF idOrKey[1] = "key"
  THEN IF \E p \in st.keyToId : p[1] = idOrKey[2]
       THEN (CHOOSE p \in st.keyToId : p[1] = idOrKey[2])[2]
       ELSE -1
  ELSE idOrKey[2]

\* onmessage with a get message: answered at once from the docstore as
\* it stands, inited or not.
WorkerGet ==
  /\ inbox # <<>> /\ Head(inbox).type = "get"
  /\ inbox' = Tail(inbox)
  /\ outbox' = Append(outbox, GetOk(getEntryById(state, IdOf(state, Head(inbox).q))))
  /\ UNCHANGED <<probe, files, state, tasks, ready, calls, extFetches, log>>

\* loadCore resumes after the fetch of index.core.meta.json.
CoreMetaFetched(i) ==
  /\ tasks[i].pc = "meta"
  /\ state' = loadCoreMeta(state, files)
  /\ tasks' = [tasks EXCEPT ![i].pc = "bins"]
  /\ UNCHANGED <<probe, files, inbox, outbox, ready, calls, extFetches, log>>

\* loadCore resumes after the Promise.all of its six fetches.
CoreBinsFetched(i) ==
  /\ tasks[i].pc = "bins"
  /\ state' = loadCoreBins(state, files)
  /\ tasks' = [tasks EXCEPT ![i].pc = "idmap"]
  /\ UNCHANGED <<probe, files, inbox, outbox, ready, calls, extFetches, log>>

\* loadCore resumes after keyMapRes.json() and runs to its end;
\* handleInit sets inited and posts init:ok.
CoreLoadDone(i) ==
  /\ tasks[i].pc = "idmap"
  /\ state' = [loadCoreFinish(state, files) EXCEPT !.inited = TRUE]
  /\ tasks' = Without(tasks, i)
  /\ outbox' = Append(outbox, InitOk)
  /\ UNCHANGED <<probe, files, inbox, ready, calls, extFetches, log>>

\* ensureExtendedLoaded resumes after the fetch of index.ext.meta.json.
ExtMetaFetched(i) ==
  /\ tasks[i].pc = "extMeta"
  /\ tasks' = [tasks EXCEPT ![i].pc = "extBins"]
  /\ UNCHANGED <<probe, files, state, inbox, outbox, ready, calls, extFetches, log>>

\* handleSearch after ensureExtendedLoaded, against state st.
FinishSearch(st, t, tq) == Answer(st, t.q, t.opts, tq, SearchRun(st, tq, t.opts))

\* ensureExtendedLoaded resumes after its three binary fetches, assigns
\* the tier, and handleSearch runs to its end.
ExtLoadDone(i) ==
  /\ tasks[i].pc = "extBins"
  /\ state' = loadExt(state, files)
  /\ FinishSearch(state', tasks[i], tokenizeQuery(tasks[i].q))
  /\ tasks' = Without(tasks, i)
  /\ UNCHANGED <<probe, files, inbox, ready, calls, extFetches>>

\* Seeded fault: a failed load leaves the extended tier marked loaded.
FetchFailedMarksLoaded(i) ==
  /\ tasks' = Without(tasks, i)
  /\ state' = IF tasks[i].kind = "search" THEN [state EXCEPT !.extLoaded = TRUE] ELSE state
  /\ IF tasks[i].kind = "search"
     THEN Answer(state, tasks[i].q, tasks[i].opts, tokenizeQuery(tasks[i].q),
                 ErrorRun(FetchError))
     ELSE /\ outbox' = Append(outbox, ErrorMsg(FetchError))
          /\ log' = log
  /\ UNCHANGED <<probe, files, inbox, ready, calls, extFetches>>

\* Seeded fault: a failed load of the extended tier unloads it.
FetchFailedUnloads(i) ==
  /\ tasks' = Without(tasks, i)
  /\ state' = IF tasks[i].kind = "search"
              THEN [state EXCEPT !.extLoaded = FALSE, !.ext = EmptyTier] ELSE state
  /\ IF tasks[i].kind = "search"
     THEN Answer(state, tasks[i].q, tasks[i].opts, tokenizeQuery(tasks[i].q),
                 ErrorRun(FetchError))
     ELSE /\ outbox' = Append(outbox, ErrorMsg(FetchError))
          /\ log' = log
  /\ UNCHANGED <<probe, files, inbox, ready, calls, extFetches>>

\* A fetch a handler waits for is rejected, or the code that runs when
\* it resumes throws before its first assignment: the handler throws
\* and onmessage posts an error.
FetchFailed(i) ==
  /\ tasks' = Without(tasks, i)
  /\ IF tasks[i].kind = "search"
     THEN Answer(state, tasks[i].q, tasks[i].opts, tokenizeQuery(tasks[i].q),
                 ErrorRun(FetchError))
     ELSE /\ outbox' = Append(outbox, ErrorMsg(FetchError))
          /\ log' = log
  /\ UNCHANGED <<probe, files, state, inbox, ready, calls, extFetches>>

\* ------------------------------------------------------------- client

\* Seeded fault: search does not wait for ready and posts while the
\* core tier is loading.
MayPostEarly(r) == r # "rejected"

\* `await this.ready` lets a call go on only once ready is resolved.
MayPost(r) == r = "resolved"

\* A call keeps the state ready was in when it was made.
Call(q, opts, status) ==
  [kind |-> "search", q |-> q, opts |-> opts, status |-> status, results |-> <<>>,
   madeWhile |-> ready]

\* A getEntry call: q holds idOrKey.
GetCall(idOrKey, status) ==
  [Call(idOrKey, DefaultOpts, status) EXCEPT !.kind = "get"]

\* The message a call posts once ready is resolved.
PostOf(c) == IF c.kind = "get" THEN GetMsg(c.q) ELSE SearchMsg(c.q, c.opts)

\* db.search(q, opts) up to its await, and beyond it when ready is
\* already settled.
CallSearch(q, opts) ==
  /\ Len(calls) < MaxCalls
  /\ IF MayPost(ready)
     THEN /\ calls' = Append(calls, Call(q, opts, "listening"))
          /\ inbox' = Append(inbox, SearchMsg(q, opts))
     ELSE /\ calls' = Append(calls, Call(q, opts,
                         IF ready = "rejected" THEN "rejected" ELSE "waiting"))
          /\ inbox' = inbox
  /\ UNCHANGED <<probe, files, state, tasks, outbox, ready, extFetches, log>>

\* db.getEntry(idOrKey), in the same way.
CallGet(idOrKey) ==
  /\ Len(calls) < MaxCalls
  /\ IF MayPost(ready)
     THEN /\ calls' = Append(calls, GetCall(idOrKey, "listening"))
          /\ inbox' = Append(inbox, GetMsg(idOrKey))
     ELSE /\ calls' = Append(calls, GetCall(idOrKey,
                         IF ready = "rejected" THEN "rejected" ELSE "waiting"))
          /\ inbox' = inbox
  /\ UNCHANGED <<probe, files, state, tasks, outbox, ready, extFetches, log>>

\* Seeded fault: the listener of a call takes no notice of an error.
SettleIgnoresError(c, m) ==
  IF c.status = "listening" /\ m.type = (IF c.kind = "get" THEN "get:ok" ELSE "search:ok")
  THEN [c EXCEPT !.status = "resolved", !.results = m.results]
  ELSE c

\* The message listeners of SearchDB run on the next worker message: the
\* one of the constructor settles ready, the one of every search that
\* has posted settles its promise.  The calls waiting on ready then go
\* on, in call order.
Settle(c, m) ==
  IF c.status = "listening" /\ m.type = (IF c.kind = "get" THEN "get:ok" ELSE "search:ok")
  THEN [c EXCEPT !.status = "resolved", !.results = m.results]
  ELSE IF c.status = "listening" /\ m.type = "error"
  THEN [c EXCEPT !.status = "rejected"]
  ELSE c

\* Seeded fault: the constructor's listener ignores error messages.
ReadyAfterIgnoresError(r, m) ==
  IF r = "pending" /\ m.type = "init:ok" THEN "resolved" ELSE r

ReadyAfter(r, m) ==
  IF r = "pending" /\ m.type = "init:ok" THEN "resolved"
  ELSE IF r = "pending" /\ m.type = "error" THEN "rejected"
  ELSE r

Resume(c, r) ==
  IF c.status = "waiting" /\ r = "resolved" THEN [c EXCEPT !.status = "listening"]
  ELSE IF c.status = "waiting" /\ r = "rejected" THEN [c EXCEPT !.status = "rejected"]
  ELSE c

ClientDeliver ==
  /\ outbox # <<>>
  /\ outbox' = Tail(outbox)
  /\ ready' = ReadyAfter(ready, Head(outbox))
  /\ LET settled == [k \in 1..Len(calls) |-> Settle(calls[k], Head(outbox))]
         posting == SelectSeq(AsSeq(settled),
                              LAMBDA c : c.status = "waiting" /\ ready' = "resolved")
     IN  /\ calls' = AsSeq([k \in 1..Len(calls) |-> Resume(settled[k], ready')])
         /\ inbox' = inbox \o AsSeq([k \in 1..Len(posting) |-> PostOf(posting[k])])
  /\ UNCHANGED <<probe, files, state, tasks, extFetches, log>>

\* ----------------------------------------------------- specifications

\* The searches a page makes while the engine starts: a word of the
\* core tier, a year (which needs the extended tier), a quoted phrase,
\* the word doi.
PageQueries ==
  { <<114,111,103,97,119,97,121>>,                                      \* rogaway
    <<49,57,57,51>>,                                                    \* 1993
    <<34,122,101,114,111,32,107,110,111,119,108,101,100,103,101,34>>,   \* "zero knowledge"
    <<100,111,105>> }                                                   \* doi

\* The options a page passes besides the default ones: limits below,
\* inside and above the valid range.
PageLimits == { <<0>>, <<2>>, <<10000>> }

\* Queries without a phrase or a bag token: the empty string, white
\* space, a stopword.
BlankQueries == { <<>>, <<32>>, <<116,104,101>> }

\* The db.search calls a page makes: every page query with the default
\* options, the author query with each of the other limits, and the
\* blank queries with the extended tier asked for.
PageSearches ==
  [q : PageQueries, opts : {DefaultOpts}]
    \cup [q : {<<114,111,103,97,119,97,121>>},
          opts : [limit : PageLimits, useExtended : {FALSE}]]
    \cup [q : BlankQueries, opts : {[limit |-> <<>>, useExtended |-> TRUE]}]

\* The db.getEntry calls a page makes: by id and by key.
PageGets == { <<"id", 1>>, <<"key", <<74,67,58,66,101,108,108>>>> }   \* "JC:Bell"

Next ==
  \/ WorkerInit
  \/ WorkerSearch
  \/ WorkerGet
  \/ \E i \in 1..Len(tasks) : CoreMetaFetched(i)
  \/ \E i \in 1..Len(tasks) : CoreBinsFetched(i)
  \/ \E i \in 1..Len(tasks) : CoreLoadDone(i)
  \/ \E i \in 1..Len(tasks) : ExtMetaFetched(i)
  \/ \E i \in 1..Len(tasks) : ExtLoadDone(i)
  \/ \E i \in 1..Len(tasks) : FetchFailed(i)
  \/ \E c \in PageSearches : CallSearch(c.q, c.opts)
  \/ \E x \in PageGets : CallGet(x)
  \/ ClientDeliver

\* A SearchDB and its worker from construction on.
Spec == Init /\ [][Next]_vars

\* What the steps of the two event loops and of the fetches do to the
\* queues: onmessage takes the head of the worker's inbox (WorkerInit,
\* WorkerSearch, WorkerGet); a handler that awaits a fetch moves on or
\* ends (CoreMetaFetched .. FetchFailed); the page's listeners take the
\* head of the worker's messages (ClientDeliver).  No other step of
\* Next changes a queue in these ways.
WorkerTakes == inbox # <<>> /\ inbox' = Tail(inbox)

FetchSettles ==
  \E i \in 1..Len(tasks) :
     \/ tasks' = Without(tasks, i)
     \/ \E pc \in {"bins", "idmap", "extBins"} : tasks' = [tasks EXCEPT ![i].pc = pc]

ClientTakes == outbox # <<>> /\ outbox' = Tail(outbox)

\* Spec with event loops that leave no message unhandled and with
\* fetches that all complete or fail.
SpecLive ==
  /\ Init /\ [][Next]_vars
  /\ WF_inbox(WorkerTakes) /\ WF_tasks(FetchSettles) /\ WF_outbox(ClientTakes)

\* The items a query string is made of: words, a stopword, a quoted
\* phrase and a lone quote; a query joins up to MaxItems of them with
\* single spaces.
QueryWords ==
  { <<114,111,103,97,119,97,121>>,   \* rogaway
    <<98,101,108,108,97,114,101>>,   \* bellare
    <<98,101,108,108>>,              \* bell
    <<98,101,108,108,97>>,           \* bella
    <<98,101,108>>,                  \* bel
    <<114,111,103,48>>,              \* rog0
    <<108,97,116,116,105,99,101>>,   \* lattice
    <<49,57,57,51>>,                 \* 1993
    <<99,114,121,112,116,111>> }     \* crypto

\* The words appended to a query that has been searched.
AppendWords ==
  { <<114,111,103,97,119,97,121>>,   \* rogaway
    <<98,101,108,108,97,114,101>>,   \* bellare
    <<98,101,108,108>>,              \* bell
    <<49,57,57,51>> }                \* 1993

QueryItems ==
  QueryWords \cup
  { <<116,104,101>>,                                                     \* the
    <<34,122,101,114,111,32,107,110,111,119,108,101,100,103,101,34>>,    \* "zero knowledge"
    <<34>> }                                                             \* "

Queries ==
  {Join(items, <<32>>) : items \in UNION {[1..n -> QueryItems] : n \in 0..MaxItems}}

SearchOptions == [limit : {<<>>, <<1>>}, useExtended : BOOLEAN]

\* An engine that is Ready, with the extended tier loaded or not, and
\* no call made yet.
InitSearch ==
  /\ files = Artifacts
  /\ \E ext \in BOOLEAN :
       /\ state = IF ext THEN loadExt(ReadyState(Artifacts), Artifacts)
                  ELSE ReadyState(Artifacts)
       /\ extFetches = IF ext THEN 1 ELSE 0
  /\ inbox = <<>>
  /\ tasks = <<>>
  /\ outbox = <<>>
  /\ ready = "resolved"
  /\ calls = <<>>
  /\ log = <<>>
  /\ probe = NoProbe

SoloAnswer(st, q, opts, tq, run) ==
  /\ log' = Append(log, LogEntry(st, q, opts, tq, run))
  /\ calls' = Append(calls, Settle(Call(q, opts, "listening"), ReplyOf(run)))

\* The worker state the search runs against: the extended tier is
\* loaded first when the query needs it.
SoloLoaded(opts, tq) ==
  IF (Len(tq.tokens) # 0 \/ Len(tq.phrases) # 0)
       /\ needsExt(tq.tokens, opts) /\ ~state.extLoaded
  THEN loadExt(state, files) ELSE state

SoloRunIn(st, q, opts, tq) ==
  /\ state' = st
  /\ extFetches' = IF st.extLoaded /\ ~state.extLoaded THEN extFetches + 1
                   ELSE extFetches
  /\ SoloAnswer(st, q, opts, tq, SearchRun(st, tq, opts))

SoloRun(q, opts, tq) == SoloRunIn(SoloLoaded(opts, tq), q, opts, tq)

\* db.search(q, opts) from the call to the settled promise with no other
\* message in flight and every fetch answered: CallSearch, WorkerSearch,
\* ExtMetaFetched and ExtLoadDone when the tier is needed, ClientDeliver.
SoloSearch(q, opts) ==
  /\ inbox = <<>> /\ tasks = <<>> /\ outbox = <<>> /\ MayPost(ready)
  /\ SoloRun(q, opts, tokenizeQuery(q))
  /\ UNCHANGED <<probe, files, inbox, tasks, outbox, ready>>

\* One search, then the search of the same query with one more word
\* appended, under the same options.
NextSearch ==
  \/ \E q \in Queries, opts \in SearchOptions :
       Len(log) = 0 /\ SoloSearch(q, opts)
  \/ \E w \in AppendWords :
       Len(log) = 1 /\ SoloSearch(log[1].q \o <<32>> \o w, log[1].opts)

SpecSearch == InitSearch /\ [][NextSearch]_vars

\* Artifact files whose headers and lengths are those of the build and
\* whose tables hold values the builder never writes: a last term
\* offset that decreases or lies beyond termBytesLen, a posting range
\* that ends beyond postings.bin.
BadOffsets(f, v) ==
  [f EXCEPT !.dict.termOffsets[Len(f.dict.termOffsets)] = v]

\* The len entry of the tier's first field for the last term.
BadRange(f) ==
  [f EXCEPT !.ptrs[2 * f.dict.numTerms] = Len(f.postings) + 1]

ArtifactVariants ==
  { Artifacts,
    [Artifacts EXCEPT !.core = BadOffsets(Artifacts.core, 0)],
    [Artifacts EXCEPT !.core = BadOffsets(Artifacts.core, Artifacts.core.dict.termBytesLen + 4)],
    [Artifacts EXCEPT !.core = BadRange(Artifacts.core)],
    [Artifacts EXCEPT !.ext = BadOffsets(Artifacts.ext, 0)],
    [Artifacts EXCEPT !.ext = BadRange(Artifacts.ext)] }

\* State after construction of a SearchDB whose server holds one of the
\* artifact variants.
InitLoad ==
  /\ files \in ArtifactVariants
  /\ state = InitialState
  /\ inbox = <<InitMsg>>
  /\ tasks = <<>>
  /\ outbox = <<>>
  /\ ready = "pending"
  /\ calls = <<>>
  /\ extFetches = 0
  /\ log = <<>>
  /\ probe = NoProbe

\* The calls made against the variants: an author, a year (which loads
\* the extended tier), and the gets of a page.
LoadSearches ==
  [q : {<<114,111,103,97,119,97,121>>, <<49,57,57,51>>}, opts : {DefaultOpts}]

NextLoad ==
  \/ WorkerInit
  \/ WorkerSearch
  \/ WorkerGet
  \/ \E i \in 1..Len(tasks) : CoreMetaFetched(i)
  \/ \E i \in 1..Len(tasks) : CoreBinsFetched(i)
  \/ \E i \in 1..Len(tasks) : CoreLoadDone(i)
  \/ \E i \in 1..Len(tasks) : ExtMetaFetched(i)
  \/ \E i \in 1..Len(tasks) : ExtLoadDone(i)
  \/ \E i \in 1..Len(tasks) : FetchFailed(i)
  \/ \E c \in LoadSearches : CallSearch(c.q, c.opts)
  \/ \E x \in PageGets : CallGet(x)
  \/ ClientDeliver

\* A SearchDB and its worker over artifacts that may be malformed.
SpecLoad == InitLoad /\ [][NextLoad]_vars

\* The bytes a posting file is made of here: small values and a
\* continuation byte; a file holds up to MaxBytes of them.
PostingBytes == {0, 1, 2, 128}

MaxBytes == 3

PostingFiles == UNION {[1..n -> PostingBytes] : n \in 0..MaxBytes}

\* A call readPostings(postings, start, len, withPositions) with the
\* range inside the file, not yet run.
ProbeOf(postings, start, len, withPositions) ==
  [ postings |-> postings, start |-> start, len |-> len,
    withPositions |-> withPositions,
    done |-> FALSE, docs |-> <<>>, end |-> start, thrown |-> FALSE ]

InitDecode ==
  /\ files = Artifacts
  /\ state = InitialState
  /\ inbox = <<>>
  /\ tasks = <<>>
  /\ outbox = <<>>
  /\ ready = "pending"
  /\ calls = <<>>
  /\ extFetches = 0
  /\ log = <<>>
  /\ \E b \in PostingFiles : \E start \in 0..Len(b) : \E len \in 0..(Len(b) - start) :
       \E w \in BOOLEAN : probe = ProbeOf(b, start, len, w)

\* The call runs: readPostings has no throw statement and returns the
\* doc ids it has pushed.
DecodeRange ==
  /\ probe # NoProbe /\ ~probe.done
  /\ probe' = [probe EXCEPT
                 !.done = TRUE,
                 !.docs = readPostings(probe.postings, probe.start, probe.len,
                                       probe.withPositions).docs,
                 !.end = ReadEndFrom(probe.postings, probe.start,
                                     probe.start + probe.len, probe.withPositions)]
  /\ UNCHANGED <<files, state, inbox, tasks, outbox, ready, calls, extFetches, log>>

NextDecode == DecodeRange

\* readPostings applied to every range of every small posting file.
SpecDecode == InitDecode /\ [][NextDecode]_vars

\* A bibliography in which one title word is shared by more records
\* than a result list holds and one four-letter prefix by more terms
\* than an expansion takes: WideDocs records "Wide ...", the first titled
\* "Wide capa", the last holding the last two of the WideTerms words
\* capa101, capa102, ..., the others sharing the rest of these words.
WideDocs == 52

WideTerms == 129

WideWord(j) == <<99,97,112,97>> \o DecStr(100 + j)

WideWordsOf(i) ==
  IF i = 0 THEN << <<99,97,112,97>> >>
  ELSE IF i = WideDocs - 1 THEN <<WideWord(WideTerms - 1), WideWord(WideTerms)>>
  ELSE AsSeq([n \in 1..Cardinality({j \in 1..(WideTerms - 2) :
                                      (j - 1) % (WideDocs - 2) = i - 1}) |->
                WideWord(i + (n - 1) * (WideDocs - 2))])

WideEntries ==
  AsSeq([i \in 1..WideDocs |->
     [ id |-> i - 1, key |-> <<87>> \o DecStr(100 + i - 1),
       title |-> Join(<< <<87,105,100,101>> >> \o WideWordsOf(i - 1), <<32>>),
       authors_str |-> <<>>, venue |-> <<>>, year |-> <<>>,
       page_range |-> <<>>, doi |-> <<>> ]])

WideArtifacts == BuildArtifacts(WideEntries)

WideQueries ==
  { <<119,105,100,101>>,               \* wide
    <<99,97,112,97>>,                  \* capa
    <<99,97,112,97,50>>,               \* capa2
    <<99,97,112,97,50,50,56>>,         \* capa228
    <<99,97,112,97,49,48,49>>,         \* capa101
    <<99,97,112>> }                    \* cap

WideOptions == [limit : {<<>>, <<1000>>}, useExtended : {FALSE}]

\* An engine that is Ready over the wide bibliography.
InitWide ==
  /\ files = WideArtifacts
  /\ state = ReadyState(WideArtifacts)
  /\ extFetches = 0
  /\ inbox = <<>>
  /\ tasks = <<>>
  /\ outbox = <<>>
  /\ ready = "resolved"
  /\ calls = <<>>
  /\ log = <<>>
  /\ probe = NoProbe

\* Up to two searches, each from the call to the settled promise.
NextWide ==
  \E q \in WideQueries, opts \in WideOptions : Len(log) < 2 /\ SoloSearch(q, opts)

SpecWide == InitWide /\ [][NextWide]_vars

\* String.prototype.localeCompare is called without a locale, so the
\* collation is that of the default locale of the process that runs the
\* build.  Two of them: "root", in which every character is one
\* collation element (as in localeCompare above), and "cs", in which the
\* pair ch is one element placed between h and i.
Locales == {"root", "cs"}

\* The index of the characters of s that open a collation element.
ElementStarts(locale, s) ==
  SelectSeq(AsSeq([i \in 1..Len(s) |-> i]),
            LAMBDA i : ~(locale = "cs" /\ i > 1 /\ s[i] = 104 /\ s[i - 1] = 99))

\* Primary weights of the elements of s, doubled to leave room for the
\* contraction.
ElementWeights(locale, s, starts) ==
  AsSeq([n \in 1..Len(starts) |->
     IF locale = "cs" /\ s[starts[n]] = 99 /\ starts[n] < Len(s) /\ s[starts[n] + 1] = 104
     THEN 2 * PrimaryWeight(104) + 1
     ELSE 2 * PrimaryWeight(s[starts[n]])])

localeCompareIn(locale, s, t) ==
  IF LexCompare(ElementWeights(locale, s, ElementStarts(locale, s)),
                ElementWeights(locale, t, ElementStarts(locale, t))) # 0
  THEN LexCompare(ElementWeights(locale, s, ElementStarts(locale, s)),
                  ElementWeights(locale, t, ElementStarts(locale, t)))
  ELSE LexCompare([i \in 1..Len(s) |-> TertiaryWeight(s[i])],
                  [i \in 1..Len(t) |-> TertiaryWeight(t[i])])

\* finalizeTerms run under a given default locale.
finalizeTermsIn(locale, terms) ==
  AsSeq([k \in 1..Cardinality(terms) |->
     CHOOSE t \in terms :
        Cardinality({u \in terms : localeCompareIn(locale, u, t) < 0}) = k - 1])

\* The terms a dictionary is built from here.
DictTerms ==
  { <<99>>,                 \* c
    <<99,104>>,             \* ch
    <<99,104,105>>,         \* chi
    <<99,105>>,             \* ci
    <<100>>,                \* d
    <<104>>,                \* h
    <<104,49>>,             \* h1
    <<105>>,                \* i
    <<49,57,57,51>> }       \* 1993

\* A build of dict.bin from a set of terms under a default locale, not
\* yet run; once run, dict is the file and found[i] the index
\* lowerBoundTerm returns for the term written at index i - 1.
DictProbeOf(locale, terms) ==
  [ locale |-> locale, terms |-> terms, done |-> FALSE,
    dict |-> buildDictBin(<<>>), found |-> <<>> ]

InitDict ==
  /\ files = Artifacts
  /\ state = InitialState
  /\ inbox = <<>>
  /\ tasks = <<>>
  /\ outbox = <<>>
  /\ ready = "pending"
  /\ calls = <<>>
  /\ extFetches = 0
  /\ log = <<>>
  /\ \E locale \in Locales : \E terms \in SUBSET DictTerms :
       probe = DictProbeOf(locale, terms)

LookupAll(dict) ==
  AsSeq([i \in 1..dict.numTerms |->
     lowerBoundTerm(dict.termBlob, dict.termOffsets,
                    termAt(dict.termBlob, dict.termOffsets, i - 1))])

BuiltDict(p, dict) == [p EXCEPT !.done = TRUE, !.dict = dict, !.found = LookupAll(dict)]

\* The dictionary is written and every term of it is looked up.
BuildDict ==
  /\ probe # NoProbe /\ ~probe.done
  /\ probe' = BuiltDict(probe, buildDictBin(finalizeTermsIn(probe.locale, probe.terms)))
  /\ UNCHANGED <<files, state, inbox, tasks, outbox, ready, calls, extFetches, log>>

NextDict == BuildDict

SpecDict == InitDict /\ [][NextDict]_vars

\* The posting records the encoders are run on here: rec.get(docId) for
\* the doc ids of a subset of PostingDocs, each with the positions of
\* one of PostingPositions (their number is the tf of a frequency-only
\* record).
PostingDocs == {0, 1, 130}

PostingPositions == { <<0>>, <<0, 1>>, <<2>>, <<1, 200>> }

PostingRecs ==
  UNION {{AsSeq([n \in 1..Cardinality(D) |-> <<SortedSeq(D)[n], f[SortedSeq(D)[n]]>>]) :
            f \in [D -> PostingPositions]} : D \in SUBSET PostingDocs}

\* One posting record, not yet encoded; once run, bytes is what the
\* builder wrote for it and docs, positions what readPostings returned
\* for these bytes.
CodecProbeOf(rec, withPositions) ==
  [ rec |-> rec, withPositions |-> withPositions, done |-> FALSE,
    bytes |-> <<>>, docs |-> <<>>, positions |-> <<>> ]

InitCodec ==
  /\ files = Artifacts
  /\ state = InitialState
  /\ inbox = <<>>
  /\ tasks = <<>>
  /\ outbox = <<>>
  /\ ready = "pending"
  /\ calls = <<>>
  /\ extFetches = 0
  /\ log = <<>>
  /\ \E rec \in PostingRecs : \E w \in BOOLEAN : probe = CodecProbeOf(rec, w)

Decoded(p, bytes, out) ==
  [p EXCEPT !.done = TRUE, !.bytes = bytes, !.docs = out.docs,
            !.positions = IF p.withPositions THEN out.positions ELSE <<>>]

EncodedThenDecoded(p, bytes) ==
  Decoded(p, bytes, readPostings(bytes, 0, Len(bytes), p.withPositions))

\* encodePositions or encodeTF writes the record and readPostings reads
\* the bytes back; a frequency-only read returns { docs } alone.
EncodeDecode ==
  /\ probe # NoProbe /\ ~probe.done
  /\ probe' = EncodedThenDecoded(probe,
                IF probe.withPositions THEN encodePositions(probe.rec, 0)
                ELSE encodeTF(probe.rec, 0))
  /\ UNCHANGED <<files, state, inbox, tasks, outbox, ready, calls, extFetches, log>>

NextCodec == EncodeDecode

SpecCodec == InitCodec /\ [][NextCodec]_vars

\* The query strings the parser is run on by itself: every string of
\* up to MaxQueryLen characters over a stopword letter, another letter,
\* the space and the double quote.
QueryChars == {97, 98, 32, 34}

QueryStrings == UNION {[1..n -> QueryChars] : n \in 0..MaxQueryLen}

\* A call tokenizeQuery(q), not yet run.
ParseProbeOf(q) == [ q |-> q, done |-> FALSE, tq |-> tokenizeQuery(<<>>) ]

InitParse ==
  /\ files = Artifacts
  /\ state = InitialState
  /\ inbox = <<>>
  /\ tasks = <<>>
  /\ outbox = <<>>
  /\ ready = "pending"
  /\ calls = <<>>
  /\ extFetches = 0
  /\ log = <<>>
  /\ \E q \in QueryStrings : probe = ParseProbeOf(q)

ParseQuery ==
  /\ probe # NoProbe /\ ~probe.done
  /\ probe' = [probe EXCEPT !.done = TRUE, !.tq = tokenizeQuery(probe.q)]
  /\ UNCHANGED <<files, state, inbox, tasks, outbox, ready, calls, extFetches, log>>

NextParse == ParseQuery

SpecParse == InitParse /\ [][NextParse]_vars

\* The ids and keys getEntry is called with by itself: ids below, inside
\* and above 0..numDocs-1, keys of the corpus, and strings that are no
\* key (another case, a prefix of a key, the empty string).
GetRequests ==
  { <<"id", -1>>, <<"id", 0>>, <<"id", 3>>, <<"id", 6>>, <<"id", 7>>, <<"id", 100>>,
    <<"key", <<74,67,58,66,101,108,108>>>>,            \* "JC:Bell"
    <<"key", <<67,67,83,58,82,111,103,48,50>>>>,       \* "CCS:Rog02"
    <<"key", <<106,99,58,98,101,108,108>>>>,           \* "jc:bell"
    <<"key", <<74,67,58,66,101,108>>>>,                \* "JC:Bel"
    <<"key", <<>>>> }

\* db.getEntry(idOrKey) from the call to the settled promise with no
\* other message in flight: CallGet, WorkerGet, ClientDeliver.
SoloGet(idOrKey) ==
  /\ inbox = <<>> /\ tasks = <<>> /\ outbox = <<>> /\ MayPost(ready)
  /\ calls' = Append(calls, Settle(GetCall(idOrKey, "listening"),
                                   GetOk(getEntryById(state, IdOf(state, idOrKey)))))
  /\ UNCHANGED <<probe, files, state, inbox, tasks, outbox, ready, extFetches, log>>

\* Up to two calls of getEntry, one after the other.
NextGet == \E x \in GetRequests : Len(calls) < 2 /\ SoloGet(x)

SpecGet == InitSearch /\ [][NextGet]_vars

\* ------------------------------------------------- the builder's run

\* The files of one build in the order main writes them, each to
\* search/ and then to static/search/ (writeToSearchDirs).
FileNames ==
  << "index.core.dict.bin", "index.core.ptrs.bin", "index.core.postings.bin",
     "index.core.meta.json", "index.ext.dict.bin", "index.ext.ptrs.bin",
     "index.ext.postings.bin", "index.ext.meta.json", "doc.index.bin",
     "doc.blob.bin", "idmap.json" >>

Dirs == <<"search", "static/search">>

NumWrites == Len(FileNames) * Len(Dirs)

\* The data main passes to writeToSearchDirs for a file.  The version
\* of a meta file is a digest of the tier's postings and stands here as
\* the postings it is the digest of.
FileData(a, name) ==
  CASE name = "index.core.dict.bin"     -> a.core.dict
    [] name = "index.core.ptrs.bin"     -> a.core.ptrs
    [] name = "index.core.postings.bin" -> a.core.postings
    [] name = "index.core.meta.json"    -> [version |-> a.core.postings,
                                            numDocs |-> a.coreMeta.numDocs]
    [] name = "index.ext.dict.bin"      -> a.ext.dict
    [] name = "index.ext.ptrs.bin"      -> a.ext.ptrs
    [] name = "index.ext.postings.bin"  -> a.ext.postings
    [] name = "index.ext.meta.json"     -> [version |-> a.ext.postings]
    [] name = "doc.index.bin"           -> a.docIndex
    [] name = "doc.blob.bin"            -> a.docBlob
    [] name = "idmap.json"              -> a.idmap

\* The titles of the small bibliographies: "c b c", "b", "b c", "c c".
BuildTitles ==
  { <<99,32,98,32,99>>, <<98>>, <<98,32,99>>, <<99,32,99>> }

\* Entry i - 1 of a small bibliography: key "K:<i>", one author, year 1993.
BuildEntry(i, title) ==
  [ id |-> i - 1, key |-> <<75, 58>> \o DecStr(i), title |-> title,
    authors_str |-> <<100>>, venue |-> <<>>, year |-> <<1993>>,
    page_range |-> <<>>, doi |-> <<>> ]

BuildInputs ==
  UNION { { AsSeq([i \in 1..n |-> BuildEntry(i, ts[i])]) : ts \in [1..n -> BuildTitles] }
          : n \in 1..MaxEntries }

\* What search/ and static/search/ hold when the build starts: nothing
\* (mkdir has just made them) or the eleven files of an earlier build.
PreviousEntries == <<BuildEntry(1, <<101>>)>>

PreviousArtifacts == BuildArtifacts(PreviousEntries)

PreviousDirs ==
  { AsSeq([w \in 1..NumWrites |-> <<>>]),
    AsSeq([w \in 1..NumWrites |-> <<FileData(PreviousArtifacts,
                                             FileNames[((w - 1) \div Len(Dirs)) + 1])>>]) }

\* One run of main: dir[w] is the file of write w (file by file, search/
\* before static/search/), <<>> when it does not exist; pc counts the
\* writes done.
BuildProbeOf(es, dir) ==
  [ es |-> es, built |-> <<>>, dir |-> dir, pc |-> 0, status |-> "building" ]

InitBuild ==
  /\ files = Artifacts
  /\ state = InitialState
  /\ inbox = <<>>
  /\ tasks = <<>>
  /\ outbox = <<>>
  /\ ready = "pending"
  /\ calls = <<>>
  /\ extFetches = 0
  /\ log = <<>>
  /\ \E es \in BuildInputs, dir \in PreviousDirs : probe = BuildProbeOf(es, dir)

\* main up to 'Writing index files...': dictionaries, postings, docstore.
BuildIndex ==
  /\ probe # NoProbe /\ probe.status = "building"
  /\ probe' = [probe EXCEPT !.built = <<BuildArtifacts(probe.es)>>, !.status = "writing"]
  /\ UNCHANGED <<files, state, inbox, tasks, outbox, ready, calls, extFetches, log>>

\* The next writeFile of main succeeds; after the last one main returns.
WriteFile ==
  /\ probe # NoProbe /\ probe.status = "writing" /\ probe.pc < NumWrites
  /\ probe' = [probe EXCEPT
        !.dir[probe.pc + 1] = <<FileData(probe.built[1],
                                         FileNames[(probe.pc \div Len(Dirs)) + 1])>>,
        !.pc = probe.pc + 1,
        !.status = IF probe.pc + 1 = NumWrites THEN "done" ELSE "writing"]
  /\ UNCHANGED <<files, state, inbox, tasks, outbox, ready, calls, extFetches, log>>

\* The next writeFile rejects: main rejects, the catch logs the error
\* and the process exits; what was written stays.
WriteFails ==
  /\ probe # NoProbe /\ probe.status = "writing" /\ probe.pc < NumWrites
  /\ probe' = [probe EXCEPT !.status = "failed"]
  /\ UNCHANGED <<files, state, inbox, tasks, outbox, ready, calls, extFetches, log>>

NextBuild == BuildIndex \/ WriteFile \/ WriteFails

SpecBuild == InitBuild /\ [][NextBuild]_vars

\* --------------------------------------------------------- properties

\* The ids of a list of returned entries.
Ids(rs) == {rs[i].id : i \in 1..Len(rs)}

\* The search answered last, which ran against the present state.
Latest == log[Len(log)]
Answered == Len(log) > 0 /\ Latest.type = "search:ok"

\* ts holds the tokens pt at consecutive positions.
ContainsRun(ts, pt) ==
  \E p \in 1..(Len(ts) - Len(pt) + 1) : SubSeq(ts, p, p + Len(pt) - 1) = pt

HoldsPhrase(r, pt) ==
  ContainsRun(FieldTokens(r, "title"), pt) \/ ContainsRun(FieldTokens(r, "authors"), pt)

\* C1: for every query with a quoted phrase of two or more tokens, every
\* returned record holds the phrase tokens at consecutive positions of
\* its title or of its authors field.
C1_PhraseAdjacency ==
  \A k \in 1..Len(log) : \A p \in 1..Len(log[k].tq.phrases) :
     Len(SplitAlnum(log[k].tq.phrases[p])) >= 2 =>
       \A i \in 1..Len(log[k].results) :
          HoldsPhrase(log[k].results[i], SplitAlnum(log[k].tq.phrases[p]))

\* C2: on an initialised engine whose fetches succeed, every search is
\* answered with search:ok, never with an error, a query made only of
\* quoted phrases included.
C2_NoErrorWhenReady ==
  \A k \in 1..Len(log) :
     log[k].coreLoaded /\ log[k].message # FetchError => log[k].type = "search:ok"

\* The ids of the dictionary terms that have the token as a prefix, cut
\* to the first 128 in dictionary order.
HasPrefix(term, token) == Len(token) <= Len(term) /\ SubSeq(term, 1, Len(token)) = token

PrefixTerms(dict, token) ==
  {i \in 0..(Len(dict.termOffsets) - 2) :
     HasPrefix(termAt(dict.termBlob, dict.termOffsets, i), token)}

First128(S) == {i \in S : Cardinality({j \in S : j < i}) < 128}

ExactlyOnce(ids, S) == Range(ids) = S /\ Len(ids) = Cardinality(S)

LastToken(tq) == tq.tokens[Len(tq.tokens)]

\* C3: for the terminal bag token under lastIsPrefix, the term ids
\* resolved in a loaded tier are exactly the dictionary terms having the
\* token as a prefix (the first 128 of them), each once, whatever the
\* length of the token and whether or not it is a term itself.
C3_PrefixExpansion ==
  \A k \in 1..Len(log) :
     log[k].tq.lastIsPrefix =>
       /\ ExactlyOnce(resolveTermRanges(state.core, LastToken(log[k].tq), TRUE),
                      First128(PrefixTerms(state.core, LastToken(log[k].tq))))
       /\ state.extLoaded =>
            ExactlyOnce(resolveTermRanges(state.ext, LastToken(log[k].tq), TRUE),
                        First128(PrefixTerms(state.ext, LastToken(log[k].tq))))

\* The doc set of token t of the search answered last: the union, as a
\* set, of the postings of its resolved term ids over the loaded tiers.
PostedDocs(ps) == UNION {Range(ps[j].docs) : j \in 1..Len(ps)}

DocsOfToken(t) == PostedDocs(TokenPostings(state, Latest.tq, t))

\* C4: every returned record is in the doc set of every bag token, and
\* the result is empty when some bag token has an empty doc set.
C4_Conjunction ==
  Answered =>
    \A t \in 1..Len(Latest.tq.tokens) :
       /\ Ids(Latest.results) \subseteq DocsOfToken(t)
       /\ DocsOfToken(t) = {} => Latest.results = <<>>

\* C4 at work: two bag tokens, a record returned, and a token whose doc
\* set holds a record that the conjunction drops.
C4_Witness ==
  /\ Answered
  /\ Len(Latest.tq.tokens) >= 2
  /\ Latest.results # <<>>
  /\ \E t \in 1..Len(Latest.tq.tokens) : ~(DocsOfToken(t) \subseteq Ids(Latest.results))

\* C5 as stated: the records returned for a query with one more bag
\* token appended are among those returned for the query, under the
\* same options.
C5_Monotone ==
  Len(log) = 2 /\ log[1].type = "search:ok" /\ log[2].type = "search:ok" =>
    Ids(log[2].results) \subseteq Ids(log[1].results)

\* C5 amended: it holds when the query has a bag token, both searches
\* run with the same tiers loaded, and the top-k cut drops no match of
\* the shorter query.
C5_MonotoneUncut ==
  ( /\ Len(log) = 2 /\ log[1].type = "search:ok" /\ log[2].type = "search:ok"
    /\ Len(log[1].tq.tokens) >= 1
    /\ log[1].extLoaded = log[2].extLoaded
    /\ Len(log[1].matched) <= Limit(log[1].opts) ) =>
    Ids(log[2].results) \subseteq Ids(log[1].results)

\* C5 at work: the appended token removes some, not all, of the records.
C5_Witness ==
  /\ Len(log) = 2 /\ log[1].type = "search:ok" /\ log[2].type = "search:ok"
  /\ Len(log[1].tq.tokens) >= 1
  /\ log[1].extLoaded = log[2].extLoaded
  /\ Len(log[1].matched) <= Limit(log[1].opts)
  /\ log[2].results # <<>>
  /\ Ids(log[2].results) # Ids(log[1].results)

\* C6: searches that need the extended tier while it is not loaded share
\* one load: at no time are two rounds of extended-tier fetches in
\* progress.
C6_SingleExtLoad ==
  Cardinality({i \in 1..Len(tasks) : tasks[i].pc \in {"extMeta", "extBins"}}) <= 1

\* C7: a search made while the core tier is loading waits for ready; it
\* is posted only once the core tier is fully loaded, runs against the
\* fully loaded core, and is not answered with the error of a worker
\* that is not inited.
C7_SearchWaitsForReady ==
  /\ \A c \in Range(calls) : c.status = "waiting" <=> (c.madeWhile = "pending" /\ ready = "pending")
  /\ \A m \in Range(inbox) : m.type = "search" => CoreLoaded(state)
  /\ \A e \in Range(log) : e.coreLoaded /\ e.message # NoMsg

\* C7 at work: a search made during the load of the core tier has been
\* run by the worker and its promise resolved.
C7_Witness ==
  \E c \in Range(calls) :
     /\ c.madeWhile = "pending" /\ c.status = "resolved"
     /\ \E e \in Range(log) : e.q = c.q /\ e.type = "search:ok"

\* r goes before s in the order of the claim: score descending, then
\* year descending (none = 0), then title ascending, then key ascending
\* (titles and keys in the collation order of localeCompare).
Precedes(sr, r, ss, s) ==
  \/ sr > ss
  \/ sr = ss /\ YearOr0(<<r>>) > YearOr0(<<s>>)
  \/ sr = ss /\ YearOr0(<<r>>) = YearOr0(<<s>>) /\ localeCompare(r.title, s.title) < 0
  \/ sr = ss /\ YearOr0(<<r>>) = YearOr0(<<s>>) /\ r.title = s.title
       /\ localeCompare(r.key, s.key) < 0

MatchedFields(ps, id) == {ps[j].src : j \in {n \in 1..Len(ps) : id \in Range(ps[n].docs)}}

BestWeight(t, id) == TokenWeight(MatchedFields(TokenPostings(state, Latest.tq, t), id))

RECURSIVE SumBestWeights(_, _)
SumBestWeights(t, id) ==
  IF t = 0 THEN 0 ELSE BestWeight(t, id) + SumBestWeights(t - 1, id)

\* C9: the score of a returned record is the sum over the bag tokens of
\* the weight of the best field in which the token matches that record.
C9_ScoreIsBestField ==
  Answered =>
    \A i \in 1..Len(Latest.results) :
       Latest.ranked[i].score = SumBestWeights(Len(Latest.tq.tokens), Latest.ranked[i].id)

\* The records the terminal token matches without prefix expansion.
ExactDocs ==
  PostedDocs(TokenPostings(state, [Latest.tq EXCEPT !.lastIsPrefix = FALSE],
                           Len(Latest.tq.tokens)))

\* C10: when the terminal token matches a returned record only through
\* prefix expansion, its contribution to the score is multiplied by 0.8.
C10_PrefixPenalty ==
  Answered /\ Latest.tq.lastIsPrefix =>
    \A i \in 1..Len(Latest.results) :
       Latest.ranked[i].id \notin ExactDocs =>
         Latest.ranked[i].score =
           SumBestWeights(Len(Latest.tq.tokens) - 1, Latest.ranked[i].id)
             + (8 * BestWeight(Len(Latest.tq.tokens), Latest.ranked[i].id)) \div 10

\* clamp(limit, 1, 1000) with limit defaulting to 50.
ClampedLimit(opts) ==
  IF opts.limit = <<>> THEN 50
  ELSE IF opts.limit[1] < 1 THEN 1
  ELSE IF opts.limit[1] > 1000 THEN 1000
  ELSE opts.limit[1]

IsBlank(tq) == Len(tq.tokens) = 0 /\ Len(tq.phrases) = 0

\* C12: a query that yields no phrase and no bag token is answered with
\* the empty list whatever the options, and no search of such a query
\* ever waits for a fetch of the extended tier.
C12_BlankQuery ==
  /\ \A k \in 1..Len(log) :
        IsBlank(log[k].tq) => log[k].type = "search:ok" /\ log[k].results = <<>>
  /\ \A i \in 1..Len(tasks) :
        tasks[i].kind = "search" => ~IsBlank(tokenizeQuery(tasks[i].q))

\* C12 at work: a query of white space and a query of a stopword, both
\* asking for the extended tier, have been answered while that tier was
\* not loaded, and no load has been started.
C12_Witness ==
  /\ \E k \in 1..Len(log) :
        log[k].q = <<32>> /\ log[k].opts.useExtended /\ ~log[k].extLoaded
  /\ \E k \in 1..Len(log) :
        log[k].q = <<116,104,101>> /\ log[k].opts.useExtended /\ ~log[k].extLoaded
  /\ extFetches = 0

\* The conditions of the tier classification on one bag token: exactly
\* four digits; '10.' followed by a digit; the identifier pattern
\* (letters, a colon, a word character).
FourDigits(t) == Len(t) = 4 /\ \A i \in 1..Len(t) : t[i] >= 48 /\ t[i] <= 57

HasDoiPrefix(t) ==
  \E i \in 1..(Len(t) - 3) :
     t[i] = 49 /\ t[i + 1] = 48 /\ t[i + 2] = 46 /\ t[i + 3] >= 48 /\ t[i + 3] <= 57

RequiresExtended(tq, opts) ==
  \/ opts.useExtended
  \/ \E i \in 1..Len(tq.tokens) :
        FourDigits(tq.tokens[i]) \/ HasDoiPrefix(tq.tokens[i])
          \/ LooksLikeFieldPrefix(tq.tokens[i])

\* C18: a search waits for the extended tier only if the option is set
\* or some bag token meets one of the three conditions, and every
\* search of a query with a token or a phrase that meets them is
\* answered with the extended tier loaded.
C18_TierClassification ==
  /\ \A i \in 1..Len(tasks) :
        tasks[i].kind = "search" =>
          RequiresExtended(tokenizeQuery(tasks[i].q), tasks[i].opts)
  /\ \A k \in 1..Len(log) :
        ( /\ log[k].type = "search:ok" /\ ~IsBlank(log[k].tq)
          /\ RequiresExtended(log[k].tq, log[k].opts) ) => log[k].extLoaded

\* C14: a failed fetch of the extended tier is reported as an error to
\* the search that waited for it and leaves the tier as it was (not
\* loaded means untouched, loaded means loaded by a completed load);
\* a later search that does not need the tier (by the engine's own tier
\* classification) is answered from the intact core tier exactly as
\* without the failure, and a later search that needs the tier is not
\* answered without a new load.
C14_ExtFailureIsolated ==
  /\ \A k \in 1..Len(log) : log[k].message = FetchError => log[k].type = "error"
  /\ ~state.extLoaded => state.ext = EmptyTier
  /\ state.extLoaded =>
        \E k \in 1..Len(log) : log[k].extLoaded /\ log[k].message # FetchError
  /\ \A k, j \in 1..Len(log) :
        (k < j /\ log[k].message = FetchError) =>
          /\ log[j].coreLoaded
          /\ IF needsExt(log[j].tq.tokens, log[j].opts) /\ ~IsBlank(log[j].tq)
             THEN log[j].extLoaded \/ log[j].message = FetchError
             ELSE /\ log[j].message # FetchError
                  /\ log[j].tq.tokens # <<>> => log[j].type = "search:ok"
                  /\ log[j].results =
                       SearchRun([state EXCEPT !.extLoaded = log[j].extLoaded],
                                 log[j].tq, log[j].opts).results

\* C14 at work: a search failed on the fetch of the extended tier while
\* the tier was not loaded, and a later search that needs the tier has
\* loaded it and returned records.
C14_Witness ==
  \E k, j \in 1..Len(log) :
     /\ k < j
     /\ log[k].message = FetchError /\ ~log[k].extLoaded
     /\ log[j].type = "search:ok" /\ log[j].extLoaded /\ log[j].results # <<>>
     /\ needsExt(log[j].tq.tokens, log[j].opts)

\* The load of the core tier has failed: the worker is not inited and
\* no init message or init handler is left.
CoreLoadFailed ==
  /\ ~state.inited
  /\ \A i \in 1..Len(inbox) : inbox[i].type # "init"
  /\ \A i \in 1..Len(tasks) : tasks[i].kind # "init"

\* C15: when the load of the core tier fails, the error is reported (an
\* error message is on its way or ready is rejected), and every search
\* and getEntry call, made before or after, fails: none is posted to the
\* worker, none resolves, and all are rejected once ready is.
C15_CoreFailureIsFatal ==
  CoreLoadFailed =>
    /\ ready = "rejected" \/ (ready = "pending" /\ ErrorMsg(FetchError) \in Range(outbox))
    /\ log = <<>>
    /\ \A i \in 1..Len(inbox) : inbox[i].type \notin {"search", "get"}
    /\ \A c \in Range(calls) :
          /\ c.status \in {"waiting", "rejected"}
          /\ ready = "rejected" => c.status = "rejected"

\* C15 at work: the core load has failed, and a search and a getEntry
\* made after the rejection have both failed.
C15_Witness ==
  /\ CoreLoadFailed /\ ready = "rejected"
  /\ \E c \in Range(calls) :
        c.kind = "search" /\ c.madeWhile = "rejected" /\ c.status = "rejected"
  /\ \E c \in Range(calls) :
        c.kind = "get" /\ c.madeWhile = "rejected" /\ c.status = "rejected"

\* C19: no step unloads a tier: once extLoaded is true it stays true,
\* and once the core tier is loaded and inited it stays so.
C19_TiersNeverShrink ==
  [][ /\ state.extLoaded => state'.extLoaded /\ state'.ext = state.ext
      /\ CoreLoaded(state) => CoreLoaded(state') /\ state'.core = state.core ]_vars

\* C19 at work: with the extended tier loaded, the load started by
\* another search has failed, and the tier is still loaded.
C19_Witness ==
  /\ state.extLoaded /\ CoreLoaded(state)
  /\ \E k \in 1..Len(log) : log[k].message = FetchError /\ log[k].extLoaded

\* The validation of one tier's files: termOffsets nondecreasing and
\* bounded by termBytesLen, every (start, len) of ptrs.bin inside
\* postings.bin.
ValidTier(f) ==
  /\ \A i \in 1..(Len(f.dict.termOffsets) - 1) :
        f.dict.termOffsets[i] <= f.dict.termOffsets[i + 1]
  /\ \A i \in 1..Len(f.dict.termOffsets) : f.dict.termOffsets[i] <= f.dict.termBytesLen
  /\ \A k \in 1..3 : \A t \in 1..f.dict.numTerms :
        f.ptrs[(2 * k - 2) * f.dict.numTerms + t] + f.ptrs[(2 * k - 1) * f.dict.numTerms + t]
          <= Len(f.postings)

\* C16: a tier whose files fail the validation is refused by the loader:
\* the engine is never inited over an invalid core tier, the extended
\* tier is never marked loaded from invalid files, and no search is
\* answered from them.
C16_LoaderValidates ==
  /\ state.inited => ValidTier(files.core)
  /\ state.extLoaded => ValidTier(files.ext)
  /\ \A k \in 1..Len(log) :
        log[k].type = "search:ok" =>
          ValidTier(files.core) /\ (log[k].extLoaded => ValidTier(files.ext))

\* The offset after the varint that starts at p, when it terminates
\* before `end`; -1 when no byte below 128 comes before `end`.
VarintEnd(buf, p, end) ==
  IF p >= 0 /\ \E i \in p..(end - 1) : buf[i + 1] < 128
  THEN (CHOOSE i \in p..(end - 1) :
          buf[i + 1] < 128 /\ \A j \in p..(i - 1) : buf[j + 1] >= 128) + 1
  ELSE -1

\* The offset after n varints from p on, each terminated before `end`.
RECURSIVE SkipVarints(_, _, _, _)
SkipVarints(buf, p, end, n) ==
  IF n = 0 \/ p < 0 THEN p
  ELSE SkipVarints(buf, VarintEnd(buf, p, end), end, n - 1)

\* The bytes of [p, end) are whole records: a doc delta, a count, and for
\* a positional field as many position deltas as the count says, every
\* varint terminated inside the range, the last record ending at `end`.
RECURSIVE WholeRecords(_, _, _, _)
WholeRecords(buf, p, end, withPositions) ==
  IF p = end THEN TRUE
  ELSE IF p < 0 \/ p > end THEN FALSE
  ELSE IF SkipVarints(buf, p, end, 2) < 0 THEN FALSE
  ELSE WholeRecords(buf,
         IF withPositions
         THEN SkipVarints(buf, SkipVarints(buf, p, end, 2), end,
                          uvarint(buf, VarintEnd(buf, p, end))[1])
         ELSE SkipVarints(buf, p, end, 2),
         end, withPositions)

\* C17: decoding a range of whole records consumes exactly its len
\* bytes, and a range that is not made of whole records (a varint that
\* does not terminate inside it, a record that runs past its end) is
\* rejected with an error instead of yielding doc ids.
C17_DecoderRejects ==
  (probe # NoProbe /\ probe.done) =>
    IF WholeRecords(probe.postings, probe.start, probe.start + probe.len,
                    probe.withPositions)
    THEN ~probe.thrown /\ probe.end = probe.start + probe.len
    ELSE probe.thrown

\* The records of the docstore whose title the builder indexed token t
\* under.
TitleHolders(t) ==
  {i \in 1..Len(files.docBlob) : t \in Range(tokenize(files.docBlob[i].title))}

\* A search of one bare word with default options.
IsWordSearch(e) ==
  e.opts = DefaultOpts /\ Len(e.tq.tokens) = 1 /\ Len(e.tq.phrases) = 0
    /\ e.q = e.tq.tokens[1]

\* C13 as stated: for every record R and every non-stopword token t of
\* R's normalized title, search(t) with default options includes R.
C13_TitleTokenFindsRecord ==
  \A k \in 1..Len(log) :
     IsWordSearch(log[k]) =>
       \A i \in TitleHolders(log[k].q) :
          log[k].type = "search:ok" /\ files.docBlob[i].id \in Ids(log[k].results)

\* C13 amended: for every record R and every non-stopword token t of R's
\* normalized title, search(t) with default options includes R unless
\* it returns as many records as the limit (50 by default) allows.
C13_TitleTokenFindsRecordWithinLimit ==
  \A k \in 1..Len(log) :
     IsWordSearch(log[k]) =>
       \A i \in TitleHolders(log[k].q) :
          /\ log[k].type = "search:ok"
          /\ \/ files.docBlob[i].id \in Ids(log[k].results)
             \/ Len(log[k].results) = Limit(log[k].opts)

\* A title word has been searched with default options and the result,
\* shorter than the limit, holds a record with that word in its title.
C13_Witness ==
  \E k \in 1..Len(log) :
     /\ IsWordSearch(log[k])
     /\ TitleHolders(log[k].q) # {}
     /\ Len(log[k].results) < Limit(log[k].opts)
     /\ \A i \in TitleHolders(log[k].q) : files.docBlob[i].id \in Ids(log[k].results)

\* The term ids of a tier that the terminal token of a search resolves to.
TerminalIds(dict, e) == resolveTermRanges(dict, LastToken(e.tq), TRUE)

\* The number of times id occurs in ids.
Count(ids, id) == Cardinality({n \in 1..Len(ids) : ids[n] = id})

\* The term ids of token t itself in a dictionary (none or one).
ExactIds(dict, t) ==
  {i \in 0..(Len(dict.termOffsets) - 2) : termAt(dict.termBlob, dict.termOffsets, i) = t}

CapHolds(dict, e) ==
  /\ Len(TerminalIds(dict, e)) <= 128
  /\ \A i \in ExactIds(dict, LastToken(e.tq)) : Count(TerminalIds(dict, e), i) = 1

\* The records holding, in a core field, one of the first 128 terms
\* that have token t as a prefix.
CoreHolders(t) ==
  LET first == {termAt(state.core.termBlob, state.core.termOffsets, i) :
                  i \in First128(PrefixTerms(state.core, t))}
  IN  {files.docBlob[i].id : i \in
         {i \in 1..Len(files.docBlob) :
            \E f \in Range(CoreFields) :
               Range(FieldTokens(files.docBlob[i], f)) \cap first # {}}}

\* C20: at most 128 term ids per tier contribute to the doc set of a
\* prefix-expanded terminal token, however many dictionary terms share
\* the prefix, and the exact match, when present, is counted once among
\* them; a record reached only through a later term is not returned.
C20_ExpansionCap ==
  \A k \in 1..Len(log) :
     log[k].tq.lastIsPrefix =>
       /\ CapHolds(state.core, log[k])
       /\ state.extLoaded => CapHolds(state.ext, log[k])
       /\ (log[k].type = "search:ok" /\ Len(log[k].tq.tokens) = 1 /\ ~state.extLoaded)
            => Ids(log[k].results) \subseteq CoreHolders(LastToken(log[k].tq))

\* A token that is a term itself and a prefix of more than 128 other
\* terms has been searched: 128 term ids contributed, and the result,
\* shorter than its limit, lacks a record of a term beyond the cap.
C20_Witness ==
  \E k \in 1..Len(log) :
     /\ log[k].tq.lastIsPrefix /\ Len(log[k].tq.tokens) = 1
     /\ ExactIds(state.core, LastToken(log[k].tq)) # {}
     /\ Cardinality(PrefixTerms(state.core, LastToken(log[k].tq))) > 129
     /\ Len(TerminalIds(state.core, log[k])) = 128
     /\ log[k].type = "search:ok"
     /\ Len(log[k].results) < Limit(log[k].opts)
     /\ \E i \in 1..Len(files.docBlob) :
          /\ Range(tokenize(files.docBlob[i].title))
               \cap {termAt(state.core.termBlob, state.core.termOffsets, j) :
                       j \in PrefixTerms(state.core, LastToken(log[k].tq))} # {}
          /\ files.docBlob[i].id \notin Ids(log[k].results)

\* C21: for every term stored at index i of a dictionary written by the
\* builder, lowerBoundTerm(term) returns i and the term read back at
\* that index equals the term.
C21_DictRoundTrip ==
  (probe # NoProbe /\ probe.done) =>
     /\ {termAt(probe.dict.termBlob, probe.dict.termOffsets, i - 1) :
           i \in 1..probe.dict.numTerms} = probe.terms
     /\ \A i \in 1..probe.dict.numTerms : probe.found[i] = i - 1

\* The bytes the builder's encoder writes for a decoded list: a
\* positional list with its positions, a frequency-only list (doc ids
\* alone) with every doc counted once.
ReEncoded(p) ==
  IF p.withPositions
  THEN encodePositions(AsSeq([i \in 1..Len(p.docs) |-> <<p.docs[i], p.positions[i]>>]), 0)
  ELSE encodeTF(AsSeq([i \in 1..Len(p.docs) |-> <<p.docs[i], <<0>>>>]), 0)

\* C22: for every posting list the builder encodes, positional or
\* frequency-only, decoding it with readPostings and re-encoding the
\* decoded list yields the original bytes, and decoding returns exactly
\* the doc ids (and positions) that were encoded.
C22_PostingRoundTrip ==
  (probe # NoProbe /\ probe.done) =>
     /\ probe.docs = AsSeq([i \in 1..Len(probe.rec) |-> probe.rec[i][1]])
     /\ probe.withPositions =>
          probe.positions = AsSeq([i \in 1..Len(probe.rec) |-> probe.rec[i][2]])
     /\ ReEncoded(probe) = probe.bytes

Parsed == probe # NoProbe /\ probe.done

\* The last character of s that is not a space (0 when there is none).
LastInk(s) ==
  IF \E i \in 1..Len(s) : s[i] # 32
  THEN s[CHOOSE i \in 1..Len(s) : s[i] # 32 /\ \A j \in (i + 1)..Len(s) : s[j] = 32]
  ELSE 0

\* C23 as stated: tokenizeQuery sets lastIsPrefix to true if and only if
\* the query string does not end with a double quote and at least one
\* bag token exists.
C23_LastIsPrefix ==
  Parsed =>
    (probe.tq.lastIsPrefix <=>
       (Len(probe.tq.tokens) > 0 /\ ~(Len(probe.q) > 0 /\ probe.q[Len(probe.q)] = 34)))

\* C23 amended: lastIsPrefix is true if and only if at least one bag
\* token exists and the query string, with the white space at its end
\* left aside, does not end with a double quote.
C23_LastIsPrefixTrimmed ==
  Parsed => (probe.tq.lastIsPrefix <=> (Len(probe.tq.tokens) > 0 /\ LastInk(probe.q) # 34))

\* A query with a bag token that ends with a quote followed by white
\* space has been parsed, and lastIsPrefix is false.
C23_Witness ==
  /\ Parsed
  /\ Len(probe.tq.tokens) > 0
  /\ Len(probe.q) > 0 /\ probe.q[Len(probe.q)] = 32 /\ LastInk(probe.q) = 34
  /\ ~probe.tq.lastIsPrefix

\* The positions of the double quotes of s, in order; they pair up from
\* the left: first with second, third with fourth.
QuotesOf(s) == SelectSeq(AsSeq([i \in 1..Len(s) |-> i]), LAMBDA i : s[i] = 34)

NoEmptyQuotes(s) == \A i \in 1..(Len(s) - 1) : ~(s[i] = 34 /\ s[i + 1] = 34)

\* The text between the quotes of pair k, and the text after an
\* unmatched last quote.
QuotedText(s, qs, k) == SubSeq(s, qs[2 * k - 1] + 1, qs[2 * k] - 1)

TrailingText(s, qs) == SubSeq(s, qs[Len(qs)] + 1, Len(s))

\* The characters of s outside every pair of quotes.
Unquoted(s, qs) ==
  SelectSeq(AsSeq([i \in 1..Len(s) |-> i]),
            LAMBDA i : \A k \in 1..(Len(qs) \div 2) : i < qs[2 * k - 1] \/ i > qs[2 * k])

CountIn(c, s) == Cardinality({i \in 1..Len(s) : s[i] = c})

QuotedPhrases(s, qs) ==
  SelectSeq(AsSeq([k \in 1..(Len(qs) \div 2) |->
                     Join(SelectNonStop(SplitAlnum(QuotedText(s, qs, k))), <<32>>)]),
            LAMBDA p : Len(p) > 0)

IsSuffix(t, s) == Len(t) <= Len(s) /\ SubSeq(s, Len(s) - Len(t) + 1, Len(s)) = t

QuotesHandled(s, qs, tq) ==
  /\ tq.phrases = QuotedPhrases(s, qs)
  /\ \A c \in {97, 98} :
       CountIn(c, Concat(tq.tokens)) <= CountIn(c, PickChars(s, Unquoted(s, qs)))
  /\ Len(qs) % 2 = 1 =>
       IsSuffix(SelectNonStop(SplitAlnum(TrailingText(s, qs))), tq.tokens)

Asked(idOrKey) ==
  {i \in 1..Len(entries) :
     IF idOrKey[1] = "key" THEN entries[i].key = idOrKey[2] ELSE entries[i].id = idOrKey[2]}

\* C25: getEntry returns the record with id i for every integer i in
\* 0..numDocs-1, the record whose key is k for every key k of the
\* corpus, and null for any other id or key; it never returns a record
\* other than the one asked for.
C25_GetEntry ==
  \A k \in 1..Len(calls) :
     calls[k].kind = "get" =>
       /\ calls[k].status = "resolved"
       /\ IF Asked(calls[k].q) = {} THEN calls[k].results = <<>>
          ELSE \E i \in Asked(calls[k].q) : calls[k].results = <<DocJson(entries[i])>>

\* getEntry has been called with an id, with a key and with a string
\* that is no key, whatever the order: records and null have come back.
C25_Witness ==
  /\ Len(calls) = 2
  /\ calls[1].kind = "get" /\ calls[2].kind = "get"
  /\ calls[1].q[1] # calls[2].q[1]
  /\ \E k \in 1..2 : calls[k].results = <<>> /\ calls[k].q[1] = "key"
  /\ \E k \in 1..2 : calls[k].results # <<>> /\ calls[k].q[1] = "id"
                        /\ calls[k].results[1].id = calls[k].q[2]

\* The raw varints of one posting list from offset p up to end:
\* <<doc delta, position deltas>> per doc entry (the count alone for a
\* frequency-only field).
RECURSIVE RawPositions(_, _, _)
RawPositions(buf, p, n) ==
  IF n = 0 THEN <<<<>>, p>>
  ELSE LET v == uvarint(buf, p)
           r == RawPositions(buf, v[2], n - 1)
       IN  <<<<v[1]>> \o r[1], r[2]>>

RECURSIVE RawList(_, _, _, _)
RawList(buf, p, end, withPositions) ==
  IF p >= end THEN <<>>
  ELSE LET d == uvarint(buf, p)
           n == uvarint(buf, d[2])
           r == IF withPositions THEN RawPositions(buf, n[2], n[1]) ELSE <<<<>>, n[2]>>
       IN  <<<<d[1], r[1]>>>> \o RawList(buf, r[2], end, withPositions)

\* The posting list of term tid (0-based) in field k (1-based) of a
\* built tier, read through its pointer table.
EmittedList(tier, fields, tid, k) ==
  LET N     == tier.dict.numTerms
      start == tier.ptrs[(2 * (k - 1)) * N + tid + 1]
      len   == tier.ptrs[(2 * k - 1) * N + tid + 1]
  IN  RawList(tier.postings, start, start + len, fields[k] \in Positional)

EmittedLists(a) ==
  { EmittedList(a.core, CoreFields, tid, k) :
      tid \in 0..(a.core.dict.numTerms - 1), k \in 1..Len(CoreFields) }
  \cup { EmittedList(a.ext, ExtFields, tid, k) :
      tid \in 0..(a.ext.dict.numTerms - 1), k \in 1..Len(ExtFields) }

DeltasAscend(l) ==
  /\ \A j \in 2..Len(l) : l[j][1] >= 1
  /\ \A j \in 1..Len(l) : \A q \in 2..Len(l[j][2]) : l[j][2][q] >= 1

\* C26: in every posting list emitted by the builder, doc ids are
\* strictly increasing and, for positional fields, the positions inside
\* each doc entry are strictly increasing, so every encoded delta after
\* the first of its sequence is at least 1.
C26_ListsAscend ==
  (probe # NoProbe /\ probe.built # <<>>) =>
     \A l \in EmittedLists(probe.built[1]) : DeltasAscend(l)

\* A build has emitted a list with two docs whose first doc entry holds
\* two positions.
C26_Witness ==
  /\ probe # NoProbe /\ probe.built # <<>>
  /\ \E l \in EmittedLists(probe.built[1]) : Len(l) >= 2 /\ Len(l[1][2]) >= 2

\* The directories hold the files of one build, all of them, or none.
HoldsBuild(dir, a) ==
  \A w \in 1..NumWrites :
     dir[w] = <<FileData(a, FileNames[((w - 1) \div Len(Dirs)) + 1])>>

Whole(p) ==
  \/ \A w \in 1..NumWrites : p.dir[w] = <<>>
  \/ HoldsBuild(p.dir, PreviousArtifacts)
  \/ p.built # <<>> /\ HoldsBuild(p.dir, p.built[1])

\* C27: the builder's output is emitted atomically: at no point,
\* including when a write fails part-way through the build, does the
\* target directory hold some files of the new build together with
\* files of a previous build or with files missing.
C27_AtomicOutput ==
  probe # NoProbe => Whole(probe)

\* The worker has answered the request of call c with a reply of the
\* given type (and, for search:ok, the results c holds).
OwnReply(c, type) ==
  \E j \in 1..Len(log) :
     /\ log[j].q = c.q /\ log[j].opts = c.opts /\ log[j].type = type
     /\ type = "search:ok" => log[j].results = c.results

OwnEntry(c) ==
  IF Asked(c.q) = {} THEN c.results = <<>>
  ELSE \E i \in Asked(c.q) : c.results = <<DocJson(entries[i])>>

\* A call that was rejected after it had posted its message: calls made
\* after ready was rejected never post.
RejectedAfterPost(c) == c.status = "rejected" /\ ready = "resolved"

\* C28: when several SearchDB.search or getEntry calls are outstanding
\* at the same time, each call's promise settles with the worker reply
\* produced for its own request: a search never resolves with the
\* results of another query, and an error raised by one request never
\* rejects a different request.
C28_OwnReplyOnly ==
  \A k \in 1..Len(calls) :
     /\ (calls[k].status = "resolved" /\ calls[k].kind = "search")
           => OwnReply(calls[k], "search:ok")
     /\ (calls[k].status = "resolved" /\ calls[k].kind = "get") => OwnEntry(calls[k])
     /\ RejectedAfterPost(calls[k])
           => (calls[k].kind = "search" /\ OwnReply(calls[k], "error"))

\* The worker state with both tiers loaded from the files.
FullState(fs) == loadExt(ReadyState(fs), fs)

\* C29: in every reachable state in which extLoaded is true, the
\* extended dictionary, pointer tables, postings and prefix map all
\* come from one completed load; under any interleaving of searches and
\* extended loads, no search resolves terms against an extended tier
\* that is only partly assigned.
C29_ExtTierWhole ==
  /\ state.extLoaded => state.ext = LoadTier(files.ext)
  /\ \A k \in 1..Len(log) :
        (log[k].extLoaded /\ log[k].type = "search:ok") =>
           log[k].results = SearchRun(FullState(files), log[k].tq, log[k].opts).results

\* Two extended loads were started, the tier is loaded, and a search
\* has found records with it.
C29_Witness ==
  /\ state.extLoaded /\ extFetches = 2
  /\ \E k \in 1..Len(log) :
        log[k].extLoaded /\ log[k].type = "search:ok" /\ log[k].results # <<>>

\* A step in which the handling of one search message ends: onmessage
\* runs handleSearch to its end at once, or a handleSearch that waited
\* for a fetch runs to its end or throws.
SearchHandled ==
  \/ /\ inbox # <<>> /\ Head(inbox).type = "search"
     /\ inbox' = Tail(inbox) /\ tasks' = tasks
  \/ \E i \in 1..Len(tasks) : tasks[i].kind = "search" /\ tasks' = Without(tasks, i)

\* The step posts exactly one message, a search:ok or an error.
PostsOneReply ==
  /\ Len(outbox') = Len(outbox) + 1
  /\ SubSeq(outbox', 1, Len(outbox)) = outbox
  /\ outbox'[Len(outbox')].type \in {"search:ok", "error"}

Settled(k) == Len(calls) >= k /\ calls[k].status \in {"resolved", "rejected"}

\* C30: every 'search' message handled by the worker produces exactly
\* one reply, either search:ok or error, and never both or none;
\* provided every fetch eventually completes or fails, every
\* SearchDB.search promise eventually settles.
C30_OneReplyAndSettles ==
  /\ [][SearchHandled => PostsOneReply]_vars
  /\ \A k \in 1..MaxCalls :
        (Len(calls) >= k /\ calls[k].kind = "search") ~> Settled(k)

\* Two searches were handled, one answered with search:ok and one with
\* an error, and both promises are settled.
C30_Witness ==
  /\ Len(log) = 2 /\ log[1].type # log[2].type
  /\ Len(calls) = 2 /\ calls[1].kind = "search" /\ calls[2].kind = "search"
  /\ Settled(1) /\ Settled(2)

====
